---- MODULE Spec2Model ----
(***************************************************************************)
(* A model of the pattern, script-runner and configuration utilities of    *)
(* the pyMAW extension, and of its scripts that create fill patterns,      *)
(* load parameters into a family and reload families from views.           *)
(*                                                                         *)
(* Numbers.  The Python code computes with floats; the model computes with *)
(* exact rationals <<n, d>> (d > 0, lowest terms).  Angles are degrees,    *)
(* taken from the eight directions whose cosine and sine are rational: the *)
(* multiples of 90 and those plus atan(4/3) = 53.13..., which the model    *)
(* writes 53 (so 53, 143, 233, 323 stand for the 3-4-5 directions).        *)
(***************************************************************************)
EXTENDS Integers, Sequences, FiniteSets, TLC

VARIABLES
    heap,        \* Line objects of the TestTube pat_lib: object id -> fields
    selfLines,   \* Pattern.lines of the pattern under test: a list of ids
    orig,        \* the fields of the pattern's lines when it was built
    args,        \* the arguments of the last drawing call
    result,      \* what the last drawing call returned
    prevResult,  \* what the call before it returned
    repeated,    \* the last call repeated the arguments of the one before
    bitmap,      \* the lines get_bitmap drew, in pixels
    rectWidth,   \* the rectangle the session draws into
    rectHeight,  \* its height, None where the callers leave it out
    line_families \* HatchPattern.line_families of the same pattern text

drawVars == <<heap, selfLines, orig, args, result, prevResult, repeated, bitmap,
              rectWidth, rectHeight, line_families>>

VARIABLES
    lineFamily,  \* a Line whose perpendicular spacing may be very small
    lineRect,    \* <<width, height>> of the rectangle it is drawn into
    lineCall,    \* <<scale, rotation_deg>> of the last call, or None
    processed    \* iterations of the loop over k in the last call, or None

linesVars == <<lineFamily, lineRect, lineCall, processed>>

VARIABLES
    source,      \* the PAT data handed to PatternSet: a list of text lines
    patterns,    \* PatternSet.patterns: the Pattern objects, in parse order
    name_map,    \* PatternSet.name_map: name -> index of its Pattern
    parsed,      \* whether the source has been parsed
    names,       \* what get_pattern_names() returned, or None
    iterated     \* the patterns a "for p in patterns" loop visited, or None

parseVars == <<source, patterns, name_map, parsed, names, iterated>>

VARIABLES
    fs,          \* the files: path -> content
    fsBefore,    \* the files when the last call began
    call,        \* the last call of script_manager: <<function, path, config>>
    ret,         \* what it returned
    log,         \* what it did, in order: <<event, path, detail>>
    tempWritable, \* whether the temporary copy can be written
    tempLocked   \* whether os.remove of the temporary copy raises

scriptVars == <<fs, fsBefore, call, ret, log, tempWritable, tempLocked>>

VARIABLES
    ini,            \* pattern_settings.ini: None, or Some(its lines)
    iniBefore,      \* the file when the last handler started
    config,         \* what load_config returned
    template,       \* what the last get_template returned or raised
    configCall,     \* the last call or handler, with its arguments
    config_text,    \* ConfigEditorWindow.config_text.Text, as lines
    DialogResult,   \* ConfigEditorWindow.DialogResult: "None", "True", "False"
    isOpen,         \* the editor window is shown
    Feedback        \* <<FeedbackBorder.Background, FeedbackText.Text>>

configVars == <<ini, iniBefore, config, template, configCall, config_text,
                DialogResult, isOpen, Feedback>>

VARIABLES
    IS_METRIC,      \* roofpattern-script: the unit system of the session
    rib_spacing,    \* the argument of the last calculate_dimensions
    dimensions      \* what it returned: <<width, repeats>>

dimsVars == <<IS_METRIC, rib_spacing, dimensions>>

VARIABLES
    elements,       \* the fill patterns and filled region types of the document
    elementsBefore, \* the same when the last call started
    caseSensitive,  \* whether this Revit's FilterStringRule tells cases apart
    docCall,        \* the last creation call and its arguments
    docRet,         \* what it returned
    transactions    \* the transactions it opened

docVars == <<elements, elementsBefore, caseSensitive, docCall, docRet, transactions>>

VARIABLES
    family,         \* LoadParametersToFamily: the family's parameters, in order
    inParams,       \* the rows of the sheet below the header row
    revitRejects,   \* what Revit refuses in this session: "value", "formula"
    pc,             \* where main() stands
    transaction,    \* the open transaction: "none", "update", "sort"
    rolledBack,     \* the family to go back to when the transaction fails
    row,            \* the number of the row the update loop is at
    currentParams,  \* the ids of fam.GetParameters() of line 134
    pending,        \* <<formulaParams, valueParams>>
    errorItems,
    famLog,         \* transactions, dialogs and calls of Revit so far
    reordered       \* the list given to ReorderParameters, as ids

familyVars == <<family, inParams, revitRejects, pc, transaction, rolledBack, row,
                currentParams, pending, errorItems, famLog, reordered>>

VARIABLES
    loadPc,         \* LoadFamilesFromViews: where the script stands
    open_docs,      \* how many other project documents are open
    currdoc_families_names,
    choice,         \* the answer to 'Import whole sheets or specific views?'
    sheets,         \* the name sheets: None while it is not bound
    views,          \* the name views: None while it is not bound
    view_elements,  \* the families to reload, in order
    loaded,         \* the families LoadFamily was called for, in order
    alerts          \* the dialogs shown

loadVars == <<loadPc, open_docs, currdoc_families_names, choice, sheets, views,
              view_elements, loaded, alerts>>

vars == <<drawVars, linesVars, parseVars, scriptVars,
         configVars, dimsVars, docVars, familyVars, loadVars>>

----------------------------------------------------------------------------
(* Exact rational arithmetic standing for Python's float arithmetic.       *)

Abs(n) == IF n < 0 THEN -n ELSE n

RECURSIVE Gcd(_, _)
Gcd(a, b) == IF b = 0 THEN a ELSE Gcd(b, a % b)

\* Every value that is computed from others is passed on as an operator
\* argument rather than named in a LET, so that it is written once.
RatNorm(n, d, g) ==
    IF d < 0 THEN <<(-n) \div g, (-d) \div g>> ELSE <<n \div g, d \div g>>

Rat(n, d) == RatNorm(n, d, Gcd(Abs(n), Abs(d)))

I(n) == <<n, 1>>

RAdd(x, y) == Rat(x[1] * y[2] + y[1] * x[2], x[2] * y[2])
RNeg(x) == <<-x[1], x[2]>>
RSub(x, y) == RAdd(x, RNeg(y))
RMul(x, y) == Rat(x[1] * y[1], x[2] * y[2])
RDiv(x, y) == Rat(x[1] * y[2], x[2] * y[1])
RLt(x, y) == x[1] * y[2] < y[1] * x[2]
RLe(x, y) == x[1] * y[2] <= y[1] * x[2]
RAbs(x) == <<Abs(x[1]), x[2]>>
RMin(x, y) == IF RLe(x, y) THEN x ELSE y
RMax(x, y) == IF RLe(x, y) THEN y ELSE x

\* math.floor and math.ceil (TLA+'s \div rounds down for a positive divisor)
floor(x) == x[1] \div x[2]
ceil(x) == -((-x[1]) \div x[2])

\* Python's x % m for m > 0: the result lies in [0, m)
RMod(x, m) == RSub(x, RMul(m, I(floor(RDiv(x, m)))))

\* abs(x) < 1e-9, without leaving 32 bits: |n|/d < 1/10^9 needs d > |n| * 10^9
AbsLtEps(x) ==
    \/ x[1] = 0
    \/ Abs(x[1]) <= 2 /\ x[2] > Abs(x[1]) * 1000000000

\* x > 1e-9 and x < 1e-9
GtEps(x) == x[1] > 0 /\ ~(x[1] <= 2 /\ x[2] >= x[1] * 1000000000)
LtEps(x) == x[1] <= 0 \/ (x[1] <= 2 /\ x[2] > x[1] * 1000000000)

\* round(x, 8): a value with at most 8 decimals is returned as it is; any
\* other is rounded to the nearest multiple of 10^-8, halves away from zero
round8(x) ==
    IF 100000000 % x[2] = 0 THEN x
    ELSE LET r == (2 * Abs(x[1]) * 100000000 + x[2]) \div (2 * x[2])
         IN  Rat(IF x[1] < 0 THEN -r ELSE r, 100000000)

\* int(round(x)) of Python 2: halves are rounded away from zero
round_int(x) ==
    IF x[1] >= 0 THEN (2 * x[1] + x[2]) \div (2 * x[2])
    ELSE -((2 * (-x[1]) + x[2]) \div (2 * x[2]))

RECURSIVE RSumAbs(_)
RSumAbs(s) == IF s = <<>> THEN I(0) ELSE RAdd(RAbs(Head(s)), RSumAbs(Tail(s)))

\* Optional arguments: None is the empty tuple
None == <<>>
Some(x) == <<x>>

----------------------------------------------------------------------------
(* Each part of the program is checked on its own: the variables of the    *)
(* other parts then rest at these values.                                  *)

IdleDraw ==
    /\ heap = <<>> /\ selfLines = <<>> /\ orig = <<>> /\ line_families = <<>>
    /\ rectWidth = 1 /\ rectHeight = None
    /\ args = None /\ result = <<>> /\ prevResult = None
    /\ repeated = FALSE /\ bitmap = None

IdleLines ==
    /\ lineFamily = None /\ lineRect = <<1, 1>>
    /\ lineCall = None /\ processed = None

IdleParse ==
    /\ source = <<>> /\ patterns = <<>> /\ name_map = <<>>
    /\ parsed = FALSE /\ names = None /\ iterated = None

IdleScript ==
    /\ fs = <<>> /\ fsBefore = <<>> /\ call = None /\ ret = None /\ log = <<>>
    /\ tempWritable = TRUE /\ tempLocked = FALSE

IdleConfig ==
    /\ ini = None /\ iniBefore = None /\ config = <<"unset">>
    /\ template = None /\ configCall = None /\ config_text = <<>>
    /\ DialogResult = "None" /\ isOpen = FALSE /\ Feedback = <<"white", "">>

IdleDims == IS_METRIC = TRUE /\ rib_spacing = None /\ dimensions = None

IdleDoc ==
    /\ elements = {} /\ elementsBefore = {} /\ caseSensitive = TRUE
    /\ docCall = None /\ docRet = None /\ transactions = <<>>

IdleFamily ==
    /\ family = <<>> /\ inParams = <<>> /\ revitRejects = {} /\ pc = "idle"
    /\ transaction = "none" /\ rolledBack = <<>> /\ row = 0
    /\ currentParams = <<>> /\ pending = <<<<>>, <<>>>> /\ errorItems = <<>>
    /\ famLog = <<>> /\ reordered = None

IdleLoad ==
    /\ loadPc = "idle" /\ open_docs = 0 /\ currdoc_families_names = {}
    /\ choice = None /\ sheets = None /\ views = None
    /\ view_elements = <<>> /\ loaded = <<>> /\ alerts = <<>>

notDrawVars ==
    <<linesVars, parseVars, scriptVars, configVars,
      dimsVars, docVars, familyVars, loadVars>>
IdleNotDraw ==
    IdleLines /\ IdleParse /\ IdleScript /\ IdleConfig
    /\ IdleDims /\ IdleDoc /\ IdleFamily /\ IdleLoad

notLinesVars ==
    <<drawVars, parseVars, scriptVars, configVars,
      dimsVars, docVars, familyVars, loadVars>>
IdleNotLines ==
    IdleDraw /\ IdleParse /\ IdleScript /\ IdleConfig
    /\ IdleDims /\ IdleDoc /\ IdleFamily /\ IdleLoad

notParseVars ==
    <<drawVars, linesVars, scriptVars, configVars,
      dimsVars, docVars, familyVars, loadVars>>
IdleNotParse ==
    IdleDraw /\ IdleLines /\ IdleScript /\ IdleConfig
    /\ IdleDims /\ IdleDoc /\ IdleFamily /\ IdleLoad

notScriptVars ==
    <<drawVars, linesVars, parseVars, configVars,
      dimsVars, docVars, familyVars, loadVars>>
IdleNotScript ==
    IdleDraw /\ IdleLines /\ IdleParse /\ IdleConfig
    /\ IdleDims /\ IdleDoc /\ IdleFamily /\ IdleLoad

notConfigVars ==
    <<drawVars, linesVars, parseVars, scriptVars,
      dimsVars, docVars, familyVars, loadVars>>
IdleNotConfig ==
    IdleDraw /\ IdleLines /\ IdleParse /\ IdleScript
    /\ IdleDims /\ IdleDoc /\ IdleFamily /\ IdleLoad

notDimsVars ==
    <<drawVars, linesVars, parseVars, scriptVars,
      configVars, docVars, familyVars, loadVars>>
IdleNotDims ==
    IdleDraw /\ IdleLines /\ IdleParse /\ IdleScript
    /\ IdleConfig /\ IdleDoc /\ IdleFamily /\ IdleLoad

notDocVars ==
    <<drawVars, linesVars, parseVars, scriptVars,
      configVars, dimsVars, familyVars, loadVars>>
IdleNotDoc ==
    IdleDraw /\ IdleLines /\ IdleParse /\ IdleScript
    /\ IdleConfig /\ IdleDims /\ IdleFamily /\ IdleLoad

notFamilyVars ==
    <<drawVars, linesVars, parseVars, scriptVars,
      configVars, dimsVars, docVars, loadVars>>
IdleNotFamily ==
    IdleDraw /\ IdleLines /\ IdleParse /\ IdleScript
    /\ IdleConfig /\ IdleDims /\ IdleDoc /\ IdleLoad

notLoadVars ==
    <<drawVars, linesVars, parseVars, scriptVars,
      configVars, dimsVars, docVars, familyVars>>
IdleNotLoad ==
    IdleDraw /\ IdleLines /\ IdleParse /\ IdleScript
    /\ IdleConfig /\ IdleDims /\ IdleDoc /\ IdleFamily

----------------------------------------------------------------------------
(* TestTube pat_lib: class Line                                            *)

\* math.cos / math.sin of math.radians(angle), as <<cos, sin>>
Trig(angle) ==
    LET a == angle % 360
    IN  CASE a = 0   -> <<I(1), I(0)>>
          [] a = 53  -> <<Rat(3, 5), Rat(4, 5)>>
          [] a = 90  -> <<I(0), I(1)>>
          [] a = 143 -> <<Rat(-4, 5), Rat(3, 5)>>
          [] a = 180 -> <<I(-1), I(0)>>
          [] a = 233 -> <<Rat(-3, 5), Rat(-4, 5)>>
          [] a = 270 -> <<I(0), I(-1)>>
          [] a = 323 -> <<Rat(4, 5), Rat(-3, 5)>>

Line(angle, origin_x, origin_y, delta_u, delta_v, dashes) ==
    [angle_deg |-> angle, origin_x |-> origin_x, origin_y |-> origin_y,
     delta_u |-> delta_u, delta_v |-> delta_v, dashes |-> dashes]

vec_u(lf) == Trig(lf.angle_deg)

vec_v(lf) == <<RNeg(Trig(lf.angle_deg)[2]), Trig(lf.angle_deg)[1]>>

get_family_offset(lf) ==
    LET u == vec_u(lf)
        v == vec_v(lf)
    IN  <<round8(RAdd(RMul(lf.delta_u, u[1]), RMul(lf.delta_v, v[1]))),
          round8(RAdd(RMul(lf.delta_u, u[2]), RMul(lf.delta_v, v[2])))>>

get_length(lf) == RSumAbs(lf.dashes)

\* Line.scale and Line.rotate assign to the fields of the object they are
\* called on
Line_scale(lf, factor) ==
    [lf EXCEPT !.origin_x = RMul(@, factor), !.origin_y = RMul(@, factor),
               !.delta_u = RMul(@, factor), !.delta_v = RMul(@, factor),
               !.dashes = [i \in 1..Len(@) |-> RMul(@[i], factor)]]

Line_rotate(lf, angle_deg) ==
    LET cs == Trig(angle_deg)
        new_x == RSub(RMul(lf.origin_x, cs[1]), RMul(lf.origin_y, cs[2]))
        new_y == RAdd(RMul(lf.origin_x, cs[2]), RMul(lf.origin_y, cs[1]))
    IN  [lf EXCEPT !.origin_x = new_x, !.origin_y = new_y,
                   !.angle_deg = (lf.angle_deg + angle_deg) % 360]

----------------------------------------------------------------------------
(* TestTube pat_lib: class Pattern                                         *)

MAX_LINES_PER_FAMILY == 4096

\* the default of estimate_scale's parameter repetitions
DefaultRepetitions == 5

IdsOf(ids) == {ids[i] : i \in 1..Len(ids)}

Pattern_scale(h, ids, factor) ==
    [o \in DOMAIN h |-> IF o \in IdsOf(ids) THEN Line_scale(h[o], factor) ELSE h[o]]

Pattern_rotate(h, ids, angle_deg) ==
    [o \in DOMAIN h |-> IF o \in IdsOf(ids) THEN Line_rotate(h[o], angle_deg) ELSE h[o]]

RECURSIVE MaxSpacing(_, _, _)
MaxSpacing(h, ids, acc) ==
    IF ids = <<>> THEN acc
    ELSE MaxSpacing(h, Tail(ids), RMax(acc, RAbs(h[Head(ids)].delta_v)))

RECURSIVE MaxLength(_, _, _)
MaxLength(h, ids, acc) ==
    IF ids = <<>> THEN acc
    ELSE MaxLength(h, Tail(ids), RMax(acc, get_length(h[Head(ids)])))

estimate_scale(h, ids, target_size) ==
    LET max_spacing == MaxSpacing(h, ids, I(0))
        max_length == MaxLength(h, ids, I(0))
    IN  IF max_spacing = I(0) THEN I(1)
        ELSE RDiv(target_size,
                  RMax(RMul(I(DefaultRepetitions), max_spacing), max_length))

\* Step 1 of generate_drawing_instructions: temp_pattern holds a new Line
\* object for every Line of self.lines, with the same field values
TempCopyAliased(h, ids) == [heap |-> h, ids |-> ids]

TempCopy(h, ids) ==
    LET base == Cardinality(DOMAIN h)
        fresh == [i \in 1..Len(ids) |-> base + i]
    IN  [heap |-> [o \in DOMAIN h \cup IdsOf(fresh) |->
                      IF o \in DOMAIN h THEN h[o]
                      ELSE LET lf == h[ids[o - base]]
                           IN  Line(lf.angle_deg, lf.origin_x, lf.origin_y,
                                    lf.delta_u, lf.delta_v, lf.dashes)],
         ids |-> fresh]

Dot(p, v) == RAdd(RMul(p[1], v[1]), RMul(p[2], v[2]))

Min4(s) == RMin(RMin(s[1], s[2]), RMin(s[3], s[4]))
Max4(s) == RMax(RMax(s[1], s[2]), RMax(s[3], s[4]))

\* Step 3: the box corners projected onto V
ProjectCorners(v, width, height) ==
    <<Dot(<<I(0), I(0)>>, v), Dot(<<width, I(0)>>, v),
      Dot(<<I(0), height>>, v), Dot(<<width, height>>, v)>>

KBounds(val1, val2) == <<floor(RMin(val1, val2)), ceil(RMax(val1, val2))>>

KRange(lf, v_projections, origin_v) ==
    IF AbsLtEps(lf.delta_v) THEN <<0, 0>>
    ELSE KBounds(RDiv(RSub(Min4(v_projections), origin_v), lf.delta_v),
                 RDiv(RSub(Max4(v_projections), origin_v), lf.delta_v))

\* the indices k_min, k_max of the lines of a family, before the clamp
FamilyRangeUnclamped(lf, width, height) ==
    KRange(lf, ProjectCorners(vec_v(lf), width, height),
           Dot(<<lf.origin_x, lf.origin_y>>, vec_v(lf)))

\* the safety clamp
ClampRange(r) ==
    IF r[2] - r[1] > MAX_LINES_PER_FAMILY
    THEN <<r[1], r[1] + MAX_LINES_PER_FAMILY>>
    ELSE r

FamilyRange(lf, width, height) ==
    ClampRange(FamilyRangeUnclamped(lf, width, height))

\* the k that step 4 runs over: range(int(k_min), int(k_max) + 1)
LoopRange(r) == r[1]..r[2]

LinesProcessed(lf, width, height) ==
    Cardinality(LoopRange(FamilyRange(lf, width, height)))

\* P_k = Origin + k * FamilyOffset
OffsetOrigin(lf, k, fam_offset) ==
    <<RAdd(lf.origin_x, RMul(I(k), fam_offset[1])),
      RAdd(lf.origin_y, RMul(I(k), fam_offset[2]))>>

PatternOrigin(lf, k) == OffsetOrigin(lf, k, get_family_offset(lf))

NegInf == <<-1, 0>>
PosInf == <<1, 0>>

\* The parametric clipping of line P_k + t * u against one pair of box
\* sides.  t is <<t_enter, t_exit>>; the result is None where the loop body
\* ends with continue.
AxisUpdateLosesExit(t, t1, t2) ==
    Some(<<RMax(t[1], RMin(t1, t2)), RMax(t1, t2)>>)

AxisUpdate(t, t1, t2) ==
    Some(<<RMax(t[1], RMin(t1, t2)), RMin(t[2], RMax(t1, t2))>>)

AxisClip(p, u, limit, t) ==
    IF AbsLtEps(u)
    THEN IF RLt(p, I(0)) \/ RLt(limit, p) THEN None ELSE Some(t)
    ELSE AxisUpdate(t, RDiv(RSub(I(0), p), u), RDiv(RSub(limit, p), u))

ClipY(xs, pk, u, height) ==
    IF xs = None THEN None ELSE AxisClip(pk[2], u[2], height, xs[1])

ClipParams(pk, u, width, height) ==
    ClipY(AxisClip(pk[1], u[1], width, <<NegInf, PosInf>>), pk, u, height)

Segment(px, py, u, ta, tb) ==
    [x1 |-> RAdd(px, RMul(ta, u[1])), y1 |-> RAdd(py, RMul(ta, u[2])),
     x2 |-> RAdd(px, RMul(tb, u[1])), y2 |-> RAdd(py, RMul(tb, u[2]))]

\* the inner for loop of _get_dashed_segments_basis: <<index, dist_in_cycle>>
\* of the dash covering cycle_phase (the first dash when the loop finds none)
RECURSIVE FindDash(_, _, _, _)
FindDash(dashes, idx, dist_in_cycle, cycle_phase) ==
    IF idx > Len(dashes) THEN <<1, dist_in_cycle>>
    ELSE IF RLt(cycle_phase, RAdd(dist_in_cycle, RAbs(dashes[idx])))
         THEN <<idx, dist_in_cycle>>
         ELSE FindDash(dashes, idx + 1, RAdd(dist_in_cycle, RAbs(dashes[idx])),
                       cycle_phase)

\* the while loop of _get_dashed_segments_basis
RECURSIVE DashLoop(_, _, _, _, _, _, _)

\* the end of the loop body: draw if the pen is down, then advance
DashAdvance(px, py, u, current_t, t_end, dashes, segments, dash_val, step) ==
    DashLoop(px, py, u,
             IF LtEps(step)
             THEN RAdd(RAdd(current_t, step), Rat(1, 1000000000))
             ELSE RAdd(current_t, step),
             t_end, dashes,
             IF RLt(I(0), dash_val) /\ GtEps(step)
             THEN Append(segments,
                         Segment(px, py, u, current_t, RAdd(current_t, step)))
             ELSE segments)

\* the active dash, what remains of it, and the step
DashStep(px, py, u, current_t, t_end, dashes, segments, cycle_phase, found) ==
    DashAdvance(px, py, u, current_t, t_end, dashes, segments,
                dashes[found[1]],
                RMin(RSub(RAbs(dashes[found[1]]), RSub(cycle_phase, found[2])),
                     RSub(t_end, current_t)))

DashPhase(px, py, u, current_t, t_end, dashes, segments, cycle_phase) ==
    DashStep(px, py, u, current_t, t_end, dashes, segments, cycle_phase,
             FindDash(dashes, 1, I(0), cycle_phase))

DashLoop(px, py, u, current_t, t_end, dashes, segments) ==
    IF ~RLt(current_t, t_end) THEN segments
    ELSE DashPhase(px, py, u, current_t, t_end, dashes, segments,
                   RMod(current_t, RSumAbs(dashes)))

\* the dash cycle started where the line enters the rectangle
dashed_segments_from_edge(px, py, u, t_start, t_end, dashes) ==
    IF RSumAbs(dashes) = I(0) THEN <<>>
    ELSE DashLoop(RAdd(px, RMul(t_start, u[1])), RAdd(py, RMul(t_start, u[2])),
                  u, I(0), RSub(t_end, t_start), dashes, <<>>)

get_dashed_segments_basis(px, py, u, t_start, t_end, dashes) ==
    IF RSumAbs(dashes) = I(0) THEN <<>>
    ELSE DashLoop(px, py, u, t_start, t_end, dashes, <<>>)

\* Step 4, the body of the loop for one k: the segments line k adds
EmitLine(lf, pk, u, clip) ==
    IF clip = None THEN <<>>
    ELSE IF ~RLe(clip[1][1], clip[1][2]) THEN <<>>
    ELSE IF lf.dashes = <<>>
         THEN <<Segment(pk[1], pk[2], u, clip[1][1], clip[1][2])>>
         ELSE get_dashed_segments_basis(pk[1], pk[2], u, clip[1][1], clip[1][2],
                                        lf.dashes)

ClippedLine(lf, pk, u, width, height) ==
    EmitLine(lf, pk, u, ClipParams(pk, u, width, height))

LineSegments(lf, k, width, height) ==
    ClippedLine(lf, PatternOrigin(lf, k), vec_u(lf), width, height)

RECURSIVE FamilyLoop(_, _, _, _, _)
FamilyLoop(lf, k, k_max, width, height) ==
    IF k > k_max THEN <<>>
    ELSE LineSegments(lf, k, width, height)
         \o FamilyLoop(lf, k + 1, k_max, width, height)

RangeLoop(lf, r, width, height) == FamilyLoop(lf, r[1], r[2], width, height)

FamilySegments(lf, width, height) ==
    RangeLoop(lf, FamilyRange(lf, width, height), width, height)

RECURSIVE AllFamilies(_, _, _, _)
AllFamilies(h, ids, width, height) ==
    IF ids = <<>> THEN <<>>
    ELSE FamilySegments(h[Head(ids)], width, height)
         \o AllFamilies(h, Tail(ids), width, height)

\* Step 2: the session's rotation and scale, applied to temp_pattern
RotateTemp(tp, rotation_deg) ==
    IF rotation_deg # 0
    THEN [heap |-> Pattern_rotate(tp.heap, tp.ids, rotation_deg), ids |-> tp.ids]
    ELSE tp

ScaleTemp(tp, current_scale) ==
    IF current_scale # I(1)
    THEN [heap |-> Pattern_scale(tp.heap, tp.ids, current_scale), ids |-> tp.ids]
    ELSE tp

CurrentScale(h, ids, scale, max_size) ==
    IF scale # None THEN scale[1] ELSE estimate_scale(h, ids, max_size)

\* the segments of temp_pattern; when the call returns, the objects left
\* are those self.lines refers to
DrawTemp(ids, tp, width, height) ==
    [heap |-> [o \in IdsOf(ids) |-> tp.heap[o]],
     ret |-> AllFamilies(tp.heap, tp.ids, width, height)]

GenerateRect(h, ids, width, height, scale, rotation_deg) ==
    DrawTemp(ids,
             ScaleTemp(RotateTemp(TempCopy(h, ids), rotation_deg),
                       CurrentScale(h, ids, scale, RMax(width, height))),
             width, height)

\* Pattern.generate_drawing_instructions on the pattern whose lines are ids:
\* the Line objects as the call leaves them, and the list it returns
generate_drawing_instructions(h, ids, width, height, scale, rotation_deg) ==
    IF ids = <<>> THEN [heap |-> h, ret |-> <<>>]
    ELSE GenerateRect(h, ids, width,
                      IF height = None THEN width ELSE height[1],
                      scale, rotation_deg)

\* Pattern.get_bitmap: what it hands to DrawLine for each returned segment
\* (None when System.Drawing cannot be imported)
PixelLine(seg, y_origin) ==
    <<round_int(seg.x1), round_int(RSub(y_origin, seg.y1)),
      round_int(seg.x2), round_int(RSub(y_origin, seg.y2))>>

DrawLines(out, y_origin) ==
    [heap |-> out.heap, ret |-> out.ret,
     bmp |-> Some([i \in 1..Len(out.ret) |-> PixelLine(out.ret[i], y_origin)])]

get_bitmap(h, ids, width, height, scale, drawing_available) ==
    IF ~drawing_available THEN [heap |-> h, ret |-> <<>>, bmp |-> None]
    ELSE DrawLines(generate_drawing_instructions(h, ids, I(width), Some(I(height)),
                                                 scale, 0),
                   I(height - 1))

----------------------------------------------------------------------------
(* Make Pattern pat_lib: PatternLineFamily and HatchPattern                *)

PatternLineFamily(angle, origin_x, origin_y, delta_x, delta_y, dashes) ==
    [angle |-> angle, origin |-> <<origin_x, origin_y>>,
     delta |-> <<delta_x, delta_y>>, dashes |-> dashes]

\* the default of HatchPattern.estimate_scale's parameter repetitions
HatchRepetitions == 3

RECURSIVE MaxDisplacement(_, _)
MaxDisplacement(fams, acc) ==
    IF fams = <<>> THEN acc
    ELSE MaxDisplacement(Tail(fams), RMax(acc, RAbs(Head(fams).delta[1])))

ScaleFor(max_displacement, target_size) ==
    IF max_displacement = I(0) THEN I(1)
    ELSE RDiv(target_size, RMul(I(HatchRepetitions), max_displacement))

HatchPattern_estimate_scale(fams, target_size) ==
    ScaleFor(MaxDisplacement(fams, I(0)), target_size)

\* the loop of _clip_line over the four box sides: <<t0, t1>>, or None
RECURSIVE ClipLoop(_, _, _, _, _)
ClipLoop(p, q, i, t0, t1) ==
    IF i > 4 THEN Some(<<t0, t1>>)
    ELSE IF p[i] = I(0)
         THEN IF RLt(q[i], I(0)) THEN None ELSE ClipLoop(p, q, i + 1, t0, t1)
         ELSE IF RLt(p[i], I(0))
              THEN ClipLoop(p, q, i + 1, RMax(t0, RDiv(q[i], p[i])), t1)
              ELSE ClipLoop(p, q, i + 1, t0, RMin(t1, RDiv(q[i], p[i])))

ClippedEnds(x1, y1, dx, dy, tt) ==
    IF tt = None THEN None
    ELSE IF RLt(tt[1][2], tt[1][1]) THEN None
    ELSE Some(<<RAdd(x1, RMul(tt[1][1], dx)), RAdd(y1, RMul(tt[1][1], dy)),
                RAdd(x1, RMul(tt[1][2], dx)), RAdd(y1, RMul(tt[1][2], dy))>>)

ClipDelta(x1, y1, dx, dy, bounds) ==
    ClippedEnds(x1, y1, dx, dy,
                ClipLoop(<<RNeg(dx), dx, RNeg(dy), dy>>,
                         <<RSub(x1, bounds[1]), RSub(bounds[3], x1),
                           RSub(y1, bounds[2]), RSub(bounds[4], y1)>>,
                         1, I(0), I(1)))

\* HatchPattern._clip_line: the clipped <<x1, y1, x2, y2>>, or None
clip_line(x1, y1, x2, y2, bounds) ==
    ClipDelta(x1, y1, RSub(x2, x1), RSub(y2, y1), bounds)

\* math.sqrt, exact on the squares of rationals
RECURSIVE SqrtSearch(_, _, _)
SqrtSearch(n, lo, hi) ==
    IF lo >= hi THEN lo
    ELSE IF ((lo + hi + 1) \div 2) * ((lo + hi + 1) \div 2) <= n
         THEN SqrtSearch(n, (lo + hi + 1) \div 2, hi)
         ELSE SqrtSearch(n, lo, ((lo + hi + 1) \div 2) - 1)

ISqrt(n) == SqrtSearch(n, 0, IF n < 46340 THEN n ELSE 46340)

RSqrt(x) == Rat(ISqrt(x[1]), ISqrt(x[2]))

\* the loops of _apply_dashes: idx walks the dash list of the inner for
\* loop; past its end the while loop tests current_pos again
RECURSIVE DashWalk(_, _, _, _, _, _, _, _, _)

DashDraw(x1, y1, ux, uy, line_length, dashes, idx, start_d, dashed_lines, end_d) ==
    DashWalk(x1, y1, ux, uy, line_length, dashes, idx + 1,
             RAdd(start_d, RAbs(dashes[idx])),
             IF RLe(I(0), dashes[idx]) /\ RLt(start_d, end_d) /\ RLt(I(0), dashes[idx])
             THEN Append(dashed_lines,
                         [x1 |-> RAdd(x1, RMul(start_d, ux)),
                          y1 |-> RAdd(y1, RMul(start_d, uy)),
                          x2 |-> RAdd(x1, RMul(end_d, ux)),
                          y2 |-> RAdd(y1, RMul(end_d, uy))])
             ELSE dashed_lines)

DashWalk(x1, y1, ux, uy, line_length, dashes, idx, current_pos, dashed_lines) ==
    IF idx > Len(dashes)
    THEN IF RLt(current_pos, line_length)
         THEN DashWalk(x1, y1, ux, uy, line_length, dashes, 1, current_pos,
                       dashed_lines)
         ELSE dashed_lines
    ELSE IF ~RLt(current_pos, line_length) THEN dashed_lines
    ELSE DashDraw(x1, y1, ux, uy, line_length, dashes, idx, current_pos,
                  dashed_lines,
                  RMin(RAdd(current_pos, RAbs(dashes[idx])), line_length))

DashesAlong(x1, y1, dx, dy, line_length, dashes) ==
    IF line_length = I(0) THEN <<>>
    ELSE DashWalk(x1, y1, RDiv(dx, line_length), RDiv(dy, line_length),
                  line_length, dashes, 1, I(0), <<>>)

DashesDelta(x1, y1, dx, dy, dashes) ==
    DashesAlong(x1, y1, dx, dy, RSqrt(RAdd(RMul(dx, dx), RMul(dy, dy))), dashes)

\* HatchPattern._apply_dashes (it does not return for a dash list of zeros)
apply_dashes(x1, y1, x2, y2, dashes) ==
    DashesDelta(x1, y1, RSub(x2, x1), RSub(y2, y1), dashes)

\* the scaled geometric properties of a line family
ScaledFamily(lf, scale) ==
    [origin |-> <<RMul(lf.origin[1], scale), RMul(lf.origin[2], scale)>>,
     delta |-> <<RMul(lf.delta[1], scale), RMul(lf.delta[2], scale)>>,
     dashes |-> [i \in 1..Len(lf.dashes) |-> RMul(lf.dashes[i], scale)]]

\* the box corners, projected from the scaled origin onto the perpendicular
HatchProjections(sf, cs, square_size) ==
    <<Dot(<<RSub(I(0), sf.origin[1]), RSub(I(0), sf.origin[2])>>,
          <<RNeg(cs[2]), cs[1]>>),
      Dot(<<RSub(square_size, sf.origin[1]), RSub(I(0), sf.origin[2])>>,
          <<RNeg(cs[2]), cs[1]>>),
      Dot(<<RSub(I(0), sf.origin[1]), RSub(square_size, sf.origin[2])>>,
          <<RNeg(cs[2]), cs[1]>>),
      Dot(<<RSub(square_size, sf.origin[1]), RSub(square_size, sf.origin[2])>>,
          <<RNeg(cs[2]), cs[1]>>)>>

\* <<i_min, i_max>>: the loop runs over range(i_min, i_max)
HatchRange(scaled_delta_x, projs) ==
    IF scaled_delta_x = I(0) THEN <<0, 1>>
    ELSE <<floor(RDiv(Min4(projs), scaled_delta_x)),
           ceil(RDiv(Max4(projs), scaled_delta_x))>>

HatchEmit(clipped_line, scaled_dashes) ==
    IF clipped_line = None THEN <<>>
    ELSE IF scaled_dashes = <<>>
         THEN <<[x1 |-> clipped_line[1][1], y1 |-> clipped_line[1][2],
                 x2 |-> clipped_line[1][3], y2 |-> clipped_line[1][4]]>>
         ELSE apply_dashes(clipped_line[1][1], clipped_line[1][2],
                           clipped_line[1][3], clipped_line[1][4], scaled_dashes)

\* the long segment through the start point, clipped and dashed
HatchThrough(start_x, start_y, cs, square_size, scaled_dashes) ==
    HatchEmit(clip_line(RSub(start_x, RMul(RMul(cs[1], square_size), I(2))),
                        RSub(start_y, RMul(RMul(cs[2], square_size), I(2))),
                        RAdd(start_x, RMul(RMul(cs[1], square_size), I(2))),
                        RAdd(start_y, RMul(RMul(cs[2], square_size), I(2))),
                        <<I(0), I(0), square_size, square_size>>),
              scaled_dashes)

\* line i of the family: its start point, displaced and staggered
HatchLine(sf, cs, i, square_size) ==
    HatchThrough(
        RAdd(RAdd(sf.origin[1], RMul(I(i), RMul(RNeg(cs[2]), sf.delta[1]))),
             RMul(cs[1], RMul(I(i), sf.delta[2]))),
        RAdd(RAdd(sf.origin[2], RMul(I(i), RMul(cs[1], sf.delta[1]))),
             RMul(cs[2], RMul(I(i), sf.delta[2]))),
        cs, square_size, sf.dashes)

RECURSIVE HatchLoop(_, _, _, _, _)
HatchLoop(sf, cs, i, i_max, square_size) ==
    IF i >= i_max THEN <<>>
    ELSE HatchLine(sf, cs, i, square_size)
         \o HatchLoop(sf, cs, i + 1, i_max, square_size)

HatchRangeLoop(sf, cs, r, square_size) ==
    HatchLoop(sf, cs, r[1], r[2], square_size)

HatchScaled(sf, cs, square_size) ==
    HatchRangeLoop(sf, cs,
                   HatchRange(sf.delta[1], HatchProjections(sf, cs, square_size)),
                   square_size)

HatchFamily(lf, square_size, scale) ==
    HatchScaled(ScaledFamily(lf, scale), Trig(lf.angle), square_size)

RECURSIVE HatchFamilies(_, _, _)
HatchFamilies(fams, square_size, scale) ==
    IF fams = <<>> THEN <<>>
    ELSE HatchFamily(Head(fams), square_size, scale)
         \o HatchFamilies(Tail(fams), square_size, scale)

\* HatchPattern.generate_drawing_instructions
HatchPattern_generate_drawing_instructions(fams, square_size, scale) ==
    IF fams = <<>> THEN <<>>
    ELSE HatchFamilies(fams, square_size,
                       IF scale = None
                       THEN HatchPattern_estimate_scale(fams, square_size)
                       ELSE scale[1])

\* the call returns only when no family has a dash list of total length 0
HatchReturns(fams, scale) ==
    \A i \in 1..Len(fams) :
        fams[i].dashes = <<>>
        \/ (RSumAbs(fams[i].dashes) # I(0) /\ scale # Some(I(0)))

----------------------------------------------------------------------------
(* The drawing specification: a parsed pattern and calls on it.            *)

MaxSize == 2

Sizes == 1..MaxSize

Scales == {None, Some(I(1)), Some(I(2))}

Rotations == {0, 90, 180}

\* The patterns under test: continuous and dashed families, axis-parallel
\* and diagonal, with a shift along the line, a negative spacing, a dot in
\* the dash list, a family whose spacing is zero, a dash cycle longer than
\* five spacings, continuous families whose fourth or fifth field is
\* negative, and the pattern without lines
PatternMenu ==
    { <<Line(0, I(0), I(0), I(0), I(1), <<>>)>>,
      <<Line(90, I(0), I(0), I(-1), I(1), <<I(2), I(-1)>>)>>,
      <<Line(53, Rat(1, 2), I(0), I(1), I(1), <<I(1), I(-1)>>)>>,
      <<Line(0, I(0), Rat(1, 2), Rat(1, 2), I(-1),
             <<I(1), Rat(-1, 2), I(0), Rat(-1, 2)>>),
        Line(323, I(0), I(0), I(0), I(1), <<>>)>>,
      <<Line(0, I(1), I(1), I(0), I(0), <<>>),
        Line(90, I(1), I(0), I(1), Rat(1, 2), <<I(3), I(-1)>>)>>,
      <<Line(53, I(0), I(0), Rat(1, 2), I(-2), <<>>)>>,
      <<Line(0, Rat(1, 2), I(0), I(-1), Rat(1, 2), <<>>)>>,
      <<>> }

InitDraw ==
    /\ \E p \in PatternMenu :
          /\ selfLines = [i \in 1..Len(p) |-> i]
          /\ heap = [i \in 1..Len(p) |-> p[i]]
          /\ orig = p
          /\ line_families =
                [i \in 1..Len(p) |->
                    PatternLineFamily(p[i].angle_deg, p[i].origin_x, p[i].origin_y,
                                      p[i].delta_u, p[i].delta_v, p[i].dashes)]
    /\ rectWidth \in Sizes
    /\ rectHeight \in {None} \cup {Some(n) : n \in Sizes \ {rectWidth}}
    /\ args = None
    /\ result = <<>>
    /\ prevResult = None
    /\ repeated = FALSE
    /\ bitmap = None
    /\ IdleNotDraw

\* a call returns: the arguments a, and out the call's effect and result
Return(a, out, bmp) ==
    /\ heap' = out.heap
    /\ result' = out.ret
    /\ bitmap' = bmp
    /\ prevResult' = IF args = Some(a) THEN Some(result) ELSE None
    /\ repeated' = (args = Some(a))
    /\ args' = Some(a)
    /\ UNCHANGED <<selfLines, orig, rectWidth, rectHeight, line_families, notDrawVars>>

\* a caller draws the pattern into the session's rectangle
Draw(scale, rotation_deg) ==
    Return(<<"draw", scale, rotation_deg>>,
           generate_drawing_instructions(
               heap, selfLines, I(rectWidth),
               IF rectHeight = None THEN None ELSE Some(I(rectHeight[1])),
               scale, rotation_deg),
           None)

BitmapReturn(a, out) == Return(a, out, out.bmp)

\* a caller asks for the bitmap of the session's rectangle
GetBitmap(scale, drawing_available) ==
    BitmapReturn(<<"bitmap", scale, drawing_available>>,
                 get_bitmap(heap, selfLines, rectWidth,
                            IF rectHeight = None THEN rectWidth ELSE rectHeight[1],
                            scale, drawing_available))

\* the side of the square: generate_bitmap passes max(width, height)
SquareSize == IF rectHeight = None \/ rectHeight[1] < rectWidth
              THEN rectWidth ELSE rectHeight[1]

HatchReturn(a, segments) == Return(a, [heap |-> heap, ret |-> segments], None)

\* a caller draws the pattern with the Make Pattern library
DrawHatch(scale) ==
    /\ HatchReturns(line_families, scale)
    /\ HatchReturn(<<"hatch", scale, 0>>,
                   HatchPattern_generate_drawing_instructions(
                       line_families, I(SquareSize), scale))

NextDraw ==
    \/ \E s \in Scales, r \in Rotations : Draw(s, r)
    \/ \E s \in Scales, b \in BOOLEAN : GetBitmap(s, b)
    \/ \E s \in Scales : DrawHatch(s)

----------------------------------------------------------------------------
(* Properties of the drawing calls.                                        *)

SampleDen == 4

BoxWidth == I(rectWidth)
BoxHeight == IF rectHeight = None THEN I(rectWidth) ELSE I(rectHeight[1])

LastCall(kind) == args # None /\ args[1][1] = kind

InBox(seg, w, h) ==
    /\ RLe(I(0), seg.x1) /\ RLe(seg.x1, w) /\ RLe(I(0), seg.y1) /\ RLe(seg.y1, h)
    /\ RLe(I(0), seg.x2) /\ RLe(seg.x2, w) /\ RLe(I(0), seg.y2) /\ RLe(seg.y2, h)

OnBoxSide(seg, w, h) ==
    \/ seg.x1 = I(0) \/ seg.x1 = w \/ seg.y1 = I(0) \/ seg.y1 = h
    \/ seg.x2 = I(0) \/ seg.x2 = w \/ seg.y2 = I(0) \/ seg.y2 = h

TempLines ==
    LET tp == ScaleTemp(RotateTemp(TempCopy(heap, selfLines), args[1][3]),
                        CurrentScale(heap, selfLines, args[1][2],
                                     RMax(BoxWidth, BoxHeight)))
    IN  [i \in 1..Len(tp.ids) |-> tp.heap[tp.ids[i]]]

\* the pen is down at phase p of the dash cycle: p lies in a positive entry
DashStart(dashes, i) == RSumAbs(SubSeq(dashes, 1, i - 1))

PenDown(dashes, p) ==
    \E i \in 1..Len(dashes) :
        /\ RLt(I(0), dashes[i])
        /\ RLe(DashStart(dashes, i), p)
        /\ RLt(p, RAdd(DashStart(dashes, i), dashes[i]))

\* the signed distance from pk along u of a point of the line through pk
TOf(x, y, pk, u) == Dot(<<RSub(x, pk[1]), RSub(y, pk[2])>>, u)

OnLine(x, y, pk, u) ==
    RMul(RSub(x, pk[1]), u[2]) = RMul(RSub(y, pk[2]), u[1])

\* some segment of segs covers the point at distance t from pk
DrawnAt(segs, pk, u, t) ==
    \E i \in 1..Len(segs) :
        /\ OnLine(segs[i].x1, segs[i].y1, pk, u)
        /\ OnLine(segs[i].x2, segs[i].y2, pk, u)
        /\ RLe(TOf(segs[i].x1, segs[i].y1, pk, u), t)
        /\ RLt(t, TOf(segs[i].x2, segs[i].y2, pk, u))

\* sample points of the part [t_enter, t_exit) of a line inside the rectangle
Samples(t_enter, t_exit) ==
    {t \in {RAdd(t_enter, Rat(j, SampleDen)) :
               j \in 0..(2 * SampleDen * (MaxSize + 1))} : RLt(t, t_exit)}

\* the dashed lines of the last drawing: family, k, pattern origin,
\* direction and the parameters where the line enters and leaves the box
DashedLines ==
    LET tl == TempLines
    IN  { [lf |-> tl[f], k |-> k, pk |-> PatternOrigin(tl[f], k), u |-> vec_u(tl[f]),
           t |-> ClipParams(PatternOrigin(tl[f], k), vec_u(tl[f]),
                            BoxWidth, BoxHeight)] :
             f \in {g \in 1..Len(tl) : tl[g].dashes # <<>>
                                        /\ RSumAbs(tl[g].dashes) # I(0)},
             k \in (-3 * (MaxSize + 1) * SampleDen)..(3 * (MaxSize + 1) * SampleDen) }

VisibleDashedLines ==
    {l \in DashedLines :
        /\ l.k \in LoopRange(FamilyRange(l.lf, BoxWidth, BoxHeight))
        /\ l.t # None /\ RLe(l.t[1][1], l.t[1][2])}

\* C3: the dash cycle of line k is anchored at the line's pattern origin
\* P_k: the point at signed distance t from P_k is drawn exactly when
\* t mod (cycle length) lies in a positive dash entry; and the drawing of a
\* larger rectangle draws the same points of the line inside this one.
C3_DashesAnchoredAtPatternOrigin ==
    LastCall("draw") =>
        \A l \in VisibleDashedLines :
            \A t \in Samples(l.t[1][1], l.t[1][2]) :
                /\ DrawnAt(result, l.pk, l.u, t)
                      <=> PenDown(l.lf.dashes, RMod(t, RSumAbs(l.lf.dashes)))
                /\ DrawnAt(result, l.pk, l.u, t)
                      <=> DrawnAt(LineSegments(l.lf, l.k, RAdd(BoxWidth, I(1)),
                                               RAdd(BoxHeight, I(2))),
                                  l.pk, l.u, t)

\* a dashed line enters the rectangle in the middle of its dash cycle, and
\* has drawn and undrawn sample points
C3_Witness ==
    /\ LastCall("draw")
    /\ \E l \in VisibleDashedLines :
          /\ RMod(l.t[1][1], RSumAbs(l.lf.dashes)) # I(0)
          /\ \E t \in Samples(l.t[1][1], l.t[1][2]) : DrawnAt(result, l.pk, l.u, t)
          /\ \E t \in Samples(l.t[1][1], l.t[1][2]) : ~DrawnAt(result, l.pk, l.u, t)

\* C4: a drawing call leaves every line family of the Pattern with the
\* angle, origin, delta_u, delta_v and dashes it had, and a call repeated
\* with the same arguments returns the same segments.
C4_PatternUnchangedByDrawing ==
    /\ DOMAIN heap = IdsOf(selfLines)
    /\ \A i \in 1..Len(selfLines) : heap[selfLines[i]] = orig[i]
    /\ repeated => prevResult = Some(result)

\* a repeated call that rotated and scaled, and returned segments
C4_Witness ==
    /\ repeated /\ LastCall("draw")
    /\ args[1][3] # 0 /\ args[1][2] = Some(I(2))
    /\ result # <<>>

\* the line through pk along u passes through the open rectangle: two of
\* the corners lie strictly on different sides of it
SideOf(x, y, pk, u) ==
    RSub(RMul(RSub(x, pk[1]), u[2]), RMul(RSub(y, pk[2]), u[1]))

CrossesBox(pk, u, w, h) ==
    \E c1 \in {<<I(0), I(0)>>, <<w, I(0)>>, <<I(0), h>>, <<w, h>>} :
    \E c2 \in {<<I(0), I(0)>>, <<w, I(0)>>, <<I(0), h>>, <<w, h>>} :
        /\ RLt(SideOf(c1[1], c1[2], pk, u), I(0))
        /\ RLt(I(0), SideOf(c2[1], c2[2], pk, u))

SegmentsOn(pk, u) ==
    {i \in 1..Len(result) :
        /\ OnLine(result[i].x1, result[i].y1, pk, u)
        /\ OnLine(result[i].x2, result[i].y2, pk, u)}

\* the numbers of the lines looked at: the lines at both ends pass outside
LineWindow == (-8 * (MaxSize + 1))..(8 * (MaxSize + 1))

\* the continuous families of the last drawing whose perpendicular spacing
\* is not zero, with the start point and the direction of each line k
ContinuousLines ==
    IF LastCall("draw")
    THEN LET tl == TempLines
         IN  { [f |-> f, k |-> k, pk |-> PatternOrigin(tl[f], k), u |-> vec_u(tl[f])] :
                  f \in {g \in 1..Len(tl) : tl[g].dashes = <<>> /\ tl[g].delta_v # I(0)},
                  k \in LineWindow }
    ELSE LET sc == IF args[1][2] = None
                   THEN HatchPattern_estimate_scale(line_families, I(SquareSize))
                   ELSE args[1][2][1]
             sf == [g \in 1..Len(line_families) |-> ScaledFamily(line_families[g], sc)]
             cs == [g \in 1..Len(line_families) |-> Trig(line_families[g].angle)]
         IN  { [f |-> f, k |-> k, u |-> cs[f],
                pk |-> <<RAdd(RAdd(sf[f].origin[1],
                                   RMul(I(k), RMul(RNeg(cs[f][2]), sf[f].delta[1]))),
                              RMul(cs[f][1], RMul(I(k), sf[f].delta[2]))),
                         RAdd(RAdd(sf[f].origin[2],
                                   RMul(I(k), RMul(cs[f][1], sf[f].delta[1]))),
                              RMul(cs[f][2], RMul(I(k), sf[f].delta[2])))>>] :
                  f \in {g \in 1..Len(sf) : sf[g].dashes = <<>> /\ sf[g].delta[1] # I(0)},
                  k \in LineWindow }

CrossingLines ==
    {l \in ContinuousLines :
        CrossesBox(l.pk, l.u,
                   IF LastCall("hatch") THEN I(SquareSize) ELSE BoxWidth,
                   IF LastCall("hatch") THEN I(SquareSize) ELSE BoxHeight)}

EveryCrossingLineDrawnOnce ==
    /\ \A f \in 1..Len(orig) :
          Cardinality({l \in CrossingLines : l.f = f}) <= MAX_LINES_PER_FAMILY
    /\ \A l \in CrossingLines :
          /\ Cardinality(SegmentsOn(l.pk, l.u)) = 1
          /\ l.k \notin {-8 * (MaxSize + 1), 8 * (MaxSize + 1)}

\* C14: after a drawing call of either library, every line of a continuous
\* family with a perpendicular spacing other than zero (positive or
\* negative, with any shift along the line) that passes through the inside
\* of the rectangle has exactly one segment in the result, the family
\* having no more such lines than MAX_LINES_PER_FAMILY.
C14_CrossingLinesCovered ==
    args # None => EveryCrossingLineDrawnOnce

\* the same for the TestTube library alone
C14_TestTubeCovers ==
    LastCall("draw") => EveryCrossingLineDrawnOnce

\* Make Pattern: a family with a negative spacing, of which two lines pass
\* through the square, and the call returned nothing
C14_Witness ==
    /\ LastCall("hatch")
    /\ Len(line_families) = 1
    /\ RLt(line_families[1].delta[1], I(0))
    /\ Cardinality(CrossingLines) >= 2
    /\ result = <<>>

\* Make Pattern: a positive spacing, and a line shifted along its direction
\* so far that the segment laid through its start point misses the square
C14_ShiftWitness ==
    /\ LastCall("hatch")
    /\ Len(line_families) = 1
    /\ RLt(I(0), line_families[1].delta[1])
    /\ \E l \in CrossingLines : SegmentsOn(l.pk, l.u) = {}

\* TestTube: a rotated family with a negative spacing and a shift, three
\* or more of whose lines pass through the rectangle
C14_TestTubeWitness ==
    /\ LastCall("draw") /\ args[1][3] = 90
    /\ \E f \in 1..Len(orig) :
          /\ RLt(orig[f].delta_v, I(0)) /\ orig[f].delta_u # I(0)
          /\ Cardinality({l \in CrossingLines : l.f = f}) >= 3

----------------------------------------------------------------------------
(* The loop over the lines of one family: how many lines a call processes. *)

LineAngles == {0, 53, 90}

LineOrigins == {<<I(0), I(0)>>, <<Rat(1, 2), Rat(1, 4)>>}

LineSpacings == {I(1), Rat(1, 1000), Rat(1, 4096), Rat(-1, 4096), Rat(1, 8192)}

LineScales == {I(1), I(2)}

InitLines ==
    /\ \E a \in LineAngles, o \in LineOrigins, dv \in LineSpacings :
          lineFamily = Line(a, o[1], o[2], I(0), dv, <<>>)
    /\ lineRect \in Sizes \X Sizes
    /\ lineCall = None
    /\ processed = None
    /\ IdleNotLines

\* the family as the loop of generate_drawing_instructions sees it: the
\* temporary copy, rotated and scaled
TransformedLine(lf, scale, rotation_deg) ==
    Line_scale(Line_rotate(lf, rotation_deg), scale)

\* generate_drawing_instructions(width, height, scale, rotation_deg) on a
\* pattern of the one family: the iterations of "for k in range(...)"
CountLines(scale, rotation_deg) ==
    /\ processed' = Some(LinesProcessed(TransformedLine(lineFamily, scale, rotation_deg),
                                        I(lineRect[1]), I(lineRect[2])))
    /\ lineCall' = Some(<<scale, rotation_deg>>)
    /\ UNCHANGED <<lineFamily, lineRect, notLinesVars>>

NextLines == \E s \in LineScales, r \in Rotations : CountLines(s, r)

\* C2: a call to generate_drawing_instructions processes at most
\* MAX_LINES_PER_FAMILY (4096) lines of a family, however small the
\* family's perpendicular spacing delta_v is.
C2_AtMostMaxLinesPerFamily ==
    processed # None => processed[1] <= MAX_LINES_PER_FAMILY

\* what the clamp and the inclusive loop bound give together
C2_AtMostMaxLinesPlusOne ==
    processed # None => processed[1] <= MAX_LINES_PER_FAMILY + 1

\* the clamp cut the range of a dense family, and the loop ran 4097 times
C2_Witness ==
    /\ processed = Some(MAX_LINES_PER_FAMILY + 1)
    /\ FamilyRangeUnclamped(TransformedLine(lineFamily, lineCall[1][1], lineCall[1][2]),
                            I(lineRect[1]), I(lineRect[2]))
         # FamilyRange(TransformedLine(lineFamily, lineCall[1][1], lineCall[1][2]),
                       I(lineRect[1]), I(lineRect[2]))

----------------------------------------------------------------------------
(* TestTube pat_lib: class PatternSet.  A text is a sequence of characters *)
(* (one-character strings).                                                *)

RECURSIVE lstrip(_)
lstrip(s) == IF s # <<>> /\ Head(s) = " " THEN lstrip(Tail(s)) ELSE s

RECURSIVE rstrip(_)
rstrip(s) ==
    IF s # <<>> /\ s[Len(s)] = " " THEN rstrip(SubSeq(s, 1, Len(s) - 1)) ELSE s

strip(s) == rstrip(lstrip(s))

startswith(s, prefix) ==
    Len(s) >= Len(prefix) /\ SubSeq(s, 1, Len(prefix)) = prefix

UpperChar(c) ==
    CASE c = "t" -> "T" [] c = "y" -> "Y" [] c = "p" -> "P" [] c = "e" -> "E"
      [] c = "m" -> "M" [] c = "o" -> "O" [] c = "d" -> "D" [] c = "l" -> "L"
      [] OTHER -> c

upper(s) == [i \in 1..Len(s) |-> UpperChar(s[i])]

\* s.split(sep): the pieces of s between the separators
RECURSIVE SplitFrom(_, _, _, _)
SplitFrom(s, sep, cur, acc) ==
    IF s = <<>> THEN Append(acc, cur)
    ELSE IF Head(s) = sep THEN SplitFrom(Tail(s), sep, <<>>, Append(acc, cur))
    ELSE SplitFrom(Tail(s), sep, Append(cur, Head(s)), acc)

split(s, sep) == SplitFrom(s, sep, <<>>, <<>>)

\* s.split(sep, 1): at most one split
RECURSIVE SplitOnce(_, _, _)
SplitOnce(s, sep, cur) ==
    IF s = <<>> THEN <<cur>>
    ELSE IF Head(s) = sep THEN <<cur, Tail(s)>>
    ELSE SplitOnce(Tail(s), sep, Append(cur, Head(s)))

DigitChars == {"0", "1", "2", "3", "4", "5", "6", "7", "8", "9"}

DigitValue(c) ==
    CASE c = "0" -> 0 [] c = "1" -> 1 [] c = "2" -> 2 [] c = "3" -> 3
      [] c = "4" -> 4 [] c = "5" -> 5 [] c = "6" -> 6 [] c = "7" -> 7
      [] c = "8" -> 8 [] c = "9" -> 9

IsDigits(s) == \A i \in 1..Len(s) : s[i] \in DigitChars

RECURSIVE DigitsValue(_, _)
DigitsValue(s, acc) ==
    IF s = <<>> THEN acc ELSE DigitsValue(Tail(s), 10 * acc + DigitValue(Head(s)))

RECURSIVE Pow10(_)
Pow10(n) == IF n = 0 THEN 1 ELSE 10 * Pow10(n - 1)

\* an unsigned decimal: digits, with at most one point
Decimal(whole, frac) ==
    IF IsDigits(whole) /\ IsDigits(frac) /\ Len(whole) + Len(frac) > 0
    THEN Some(Rat(DigitsValue(whole \o frac, 0), Pow10(Len(frac))))
    ELSE None

Unsigned(pieces) ==
    IF Len(pieces) = 1 THEN Decimal(pieces[1], <<>>)
    ELSE IF Len(pieces) = 2 THEN Decimal(pieces[1], pieces[2])
    ELSE None

Signed(sign, value) ==
    IF value = None THEN None ELSE Some(RMul(I(sign), value[1]))

\* float(text): Some(value), or None where float raises ValueError
float(s) ==
    IF s # <<>> /\ Head(s) = "-" THEN Signed(-1, Unsigned(split(Tail(s), ".")))
    ELSE IF s # <<>> /\ Head(s) = "+" THEN Unsigned(split(Tail(s), "."))
    ELSE Unsigned(split(s, "."))

\* Pattern.__init__
Pattern(name, description, is_metric, pattern_type) ==
    [name |-> name, description |-> description, is_metric |-> is_metric,
     pattern_type |-> pattern_type, lines |-> <<>>]

\* all_lines: the stripped lines that are not blank
RECURSIVE AllLines(_)
AllLines(stream) ==
    IF stream = <<>> THEN <<>>
    ELSE IF strip(Head(stream)) # <<>>
         THEN <<strip(Head(stream))>> \o AllLines(Tail(stream))
         ELSE AllLines(Tail(stream))

\* the control lines at the beginning of the file
RECURSIVE IsMetric(_)
IsMetric(all_lines) ==
    IF all_lines = <<>> THEN FALSE
    ELSE IF startswith(upper(Head(all_lines)),
                       <<";", "%", "U", "N", "I", "T", "S", "=", "M", "M">>)
         THEN TRUE
    ELSE IF startswith(Head(all_lines), <<"*">>) THEN FALSE
    ELSE IsMetric(Tail(all_lines))

\* the state of the loop of _parse_stream
ParseState(pats, nmap, current_pattern, current_type) ==
    [patterns |-> pats, name_map |-> nmap,
     current_pattern |-> current_pattern, current_type |-> current_type]

TypeLine(line, st) ==
    [st EXCEPT !.current_type =
        Some(IF startswith(SubSeq(upper(line), 7, Len(line)),
                           <<"M", "O", "D", "E", "L">>)
             THEN "Model" ELSE "Drafting")]

\* a set keyed by name: a second pattern of a name takes the first one's place
AddPatternByName(st, pat) ==
    IF pat.name \in DOMAIN st.name_map
    THEN ParseState([st.patterns EXCEPT ![st.name_map[pat.name]] = pat],
                    st.name_map, st.name_map[pat.name], None)
    ELSE ParseState(Append(st.patterns, pat),
                    [n \in DOMAIN st.name_map \cup {pat.name} |->
                        IF n = pat.name THEN Len(st.patterns) + 1
                        ELSE st.name_map[n]],
                    Len(st.patterns) + 1, None)

\* self.patterns.append(current_pattern); self.name_map[name] = current_pattern
AddPattern(st, pat) ==
    ParseState(Append(st.patterns, pat),
               [n \in DOMAIN st.name_map \cup {pat.name} |->
                   IF n = pat.name THEN Len(st.patterns) + 1 ELSE st.name_map[n]],
               Len(st.patterns) + 1, None)

HeaderParts(parts, is_metric, st) ==
    AddPattern(st,
               Pattern(strip(parts[1]),
                       IF Len(parts) > 1 THEN strip(parts[2]) ELSE <<>>,
                       is_metric,
                       IF st.current_type # None THEN st.current_type[1]
                       ELSE "Drafting"))

HeaderLine(line, is_metric, st) ==
    HeaderParts(SplitOnce(Tail(line), ",", <<>>), is_metric, st)

\* [float(p) for p in parts_str if p]: None where a float() raises
RECURSIVE Floats(_, _)
Floats(parts_str, acc) ==
    IF parts_str = <<>> THEN Some(acc)
    ELSE IF strip(Head(parts_str)) = <<>> THEN Floats(Tail(parts_str), acc)
    ELSE IF float(strip(Head(parts_str))) = None THEN None
    ELSE Floats(Tail(parts_str), Append(acc, float(strip(Head(parts_str)))[1]))

AllZero(xs) == \A i \in 1..Len(xs) : xs[i] = I(0)

DashesOf(rest) == IF AllZero(rest) THEN <<>> ELSE rest

\* current_pattern.add_line(line_family)
AddLine(st, line_family) ==
    [st EXCEPT !.patterns[st.current_pattern].lines = Append(@, line_family)]

DataParts(parts, st) ==
    IF parts = None THEN st
    ELSE IF Len(parts[1]) < 5 THEN st
    ELSE AddLine(st, Line(parts[1][1], parts[1][2], parts[1][3], parts[1][4],
                          parts[1][5], DashesOf(SubSeq(parts[1], 6, Len(parts[1])))))

DataLine(line, st) == DataParts(Floats(split(line, ","), <<>>), st)

\* one pass of the loop "for line in all_lines"
ParseLine(line, is_metric, st) ==
    IF /\ st.current_pattern # 0 /\ st.current_type = None
       /\ startswith(upper(line), <<";", "T", "Y", "P", "E", "=">>)
    THEN TypeLine(line, st)
    ELSE IF startswith(line, <<";">>) THEN st
    ELSE IF startswith(line, <<"*">>) THEN HeaderLine(line, is_metric, st)
    ELSE IF st.current_pattern # 0 THEN DataLine(line, st)
    ELSE st

RECURSIVE ParseLoop(_, _, _)
ParseLoop(all_lines, is_metric, st) ==
    IF all_lines = <<>> THEN st
    ELSE ParseLoop(Tail(all_lines), is_metric,
                   ParseLine(Head(all_lines), is_metric, st))

ParseAll(all_lines) ==
    ParseLoop(all_lines, IsMetric(all_lines), ParseState(<<>>, <<>>, 0, None))

parse_stream(content_stream) == ParseAll(AllLines(content_stream))

get_pattern_names(pats) == [i \in 1..Len(pats) |-> pats[i].name]

MaxSourceLines == 4

HeaderA == <<"*", "A", ",", " ", "d">>
HeaderB == <<" ", "*", "B", " ">>
TypeModel == <<";", "t", "y", "p", "e", "=", "M", "o", "d", "e", "l">>
Continuous == <<"0", ",", "0", ",", "0", ",", "0", ",", "1", ",", "0">>
Dashed == <<"9", "0", ",", "0", ",", " ", "1", ".", "5", ",", "1", ",", "1", ",",
            "2", ",", "-", "1">>
NotANumber == <<"0", ",", "x", ",", "0", ",", "0", ",", "1">>
TooShort == <<"0", ",", ",", "0", ",", "1", ",", "1">>
Blank == <<" ">>

SourceLines ==
    {HeaderA, HeaderB, TypeModel, Continuous, Dashed, NotANumber, TooShort, Blank}

Sources ==
    UNION {[1..n -> SourceLines] : n \in 0..MaxSourceLines}

InitParse ==
    /\ source \in Sources
    /\ patterns = <<>>
    /\ name_map = <<>>
    /\ parsed = FALSE
    /\ names = None
    /\ iterated = None
    /\ IdleNotParse

Parsed(st) ==
    /\ patterns' = st.patterns
    /\ name_map' = st.name_map
    /\ parsed' = TRUE
    /\ names' = None
    /\ iterated' = None
    /\ UNCHANGED <<source, notParseVars>>

\* PatternSet(source) / PatternSet.parse(source)
Parse == Parsed(parse_stream(source))

\* PatternSet.get_pattern_names()
GetPatternNames ==
    /\ names' = Some(get_pattern_names(patterns))
    /\ UNCHANGED <<source, patterns, name_map, parsed, iterated, notParseVars>>

\* for p in patterns: the loop visits PatternSet.__iter__()
Iterate ==
    /\ iterated' = Some(patterns)
    /\ UNCHANGED <<source, patterns, name_map, parsed, names, notParseVars>>

NextParse == Parse \/ GetPatternNames \/ Iterate

----------------------------------------------------------------------------
(* Properties of PatternSet.                                               *)

IsHeaderLine(line) == lstrip(line) # <<>> /\ Head(lstrip(line)) = "*"

IsCommentLine(line) == lstrip(line) # <<>> /\ Head(lstrip(line)) = ";"

\* the places of the header lines of a source, in order
HeaderIdx(src) ==
    SelectSeq([i \in 1..Len(src) |-> i], LAMBDA i : IsHeaderLine(src[i]))

\* the name a header line gives: the text between "*" and the first comma
HeaderName(line) ==
    LET body == Tail(lstrip(line))
        commas == {i \in 1..Len(body) : body[i] = ","}
        end == IF commas = {} THEN Len(body)
               ELSE (CHOOSE i \in commas : \A j \in commas : i <= j) - 1
    IN  strip(SubSeq(body, 1, end))

ExpectedNames(src) ==
    [j \in 1..Len(HeaderIdx(src)) |-> HeaderName(src[HeaderIdx(src)[j]])]

\* a data line that defines a line family: five or more numbers
IsFamilyLine(line) ==
    /\ ~IsHeaderLine(line) /\ ~IsCommentLine(line)
    /\ Floats(split(strip(line), ","), <<>>) # None
    /\ Len(Floats(split(strip(line), ","), <<>>)[1]) >= 5

FamilyOf(line) ==
    LET f == Floats(split(strip(line), ","), <<>>)[1]
    IN  Line(f[1], f[2], f[3], f[4], f[5],
             IF \A i \in 6..Len(f) : f[i] = I(0) THEN <<>> ELSE SubSeq(f, 6, Len(f)))

\* the families of the j-th header: its data lines up to the next header
ExpectedFamilies(src, j) ==
    LET first == HeaderIdx(src)[j] + 1
        last == IF j < Len(HeaderIdx(src)) THEN HeaderIdx(src)[j + 1] - 1
                ELSE Len(src)
        rows == SelectSeq(SubSeq(src, first, last), IsFamilyLine)
    IN  [i \in 1..Len(rows) |-> FamilyOf(rows[i])]

\* C5: after a source is parsed, get_pattern_names() and the iteration of
\* the set both yield one entry per "*" header line, in the order of the
\* header lines, and every pattern's line families are in the order of its
\* data lines.
C5_PatternsInSourceOrder ==
    parsed =>
        /\ names # None => names[1] = ExpectedNames(source)
        /\ iterated # None =>
              /\ [j \in 1..Len(iterated[1]) |-> iterated[1][j].name]
                    = ExpectedNames(source)
              /\ \A j \in 1..Len(iterated[1]) :
                    iterated[1][j].lines = ExpectedFamilies(source, j)

\* two headers of one name, a pattern with two different families; the names
\* were asked for and the set was iterated
C5_Witness ==
    /\ parsed /\ names # None /\ iterated # None
    /\ Len(patterns) >= 2
    /\ Cardinality(DOMAIN name_map) < Len(patterns)
    /\ \E j \in 1..Len(patterns) :
          /\ Len(patterns[j].lines) >= 2
          /\ patterns[j].lines[1] # patterns[j].lines[2]

----------------------------------------------------------------------------
(* TestTube script_manager.  A path is a text; a JSON value is             *)
(* <<"str", s>> or <<"obj", f>> with f from keys to values, or another      *)
(* tagged tuple; a file holds <<"json", value>>, or text that is no JSON.  *)

JStr(x) == <<"str", x>>
JObj(f) == <<"obj", f>>
Raised == <<"raised">>

LowerChar(c) ==
    CASE c = "D" -> "d" [] c = "Y" -> "y" [] c = "N" -> "n" [] c = "P" -> "p"
      [] OTHER -> c

lower(s) == [i \in 1..Len(s) |-> LowerChar(s[i])]

\* the largest place of s holding a character of chars, 0 if there is none
LastOf(s, chars) ==
    IF \E i \in 1..Len(s) : s[i] \in chars
    THEN CHOOSE i \in 1..Len(s) :
            s[i] \in chars /\ \A j \in (i + 1)..Len(s) : s[j] \notin chars
    ELSE 0

basename(s) == SubSeq(s, LastOf(s, {"/"}) + 1, Len(s))

\* os.path.splitext: the extension begins at the last dot of the last
\* component, unless only dots precede it there
SplitAt(s, sep, dot) ==
    IF dot > sep /\ \E j \in (sep + 1)..(dot - 1) : s[j] # "."
    THEN <<SubSeq(s, 1, dot - 1), SubSeq(s, dot, Len(s))>>
    ELSE <<s, <<>>>>

splitext(s) == SplitAt(s, LastOf(s, {"/"}), LastOf(s, {"."}))

\* script.get_universal_data_file(file_id="temp_auto_" + filename, file_ext="dyn")
TempPath(script_path) ==
    <<"pyRevit/temp_auto_">> \o splitext(basename(script_path))[1]
        \o <<".", "d", "y", "n">>

\* dict.get(key, default); .get of a value that is no dict raises
GetKey(v, key, default) ==
    IF v[1] # "obj" THEN Raised
    ELSE IF key \in DOMAIN v[2] THEN v[2][key] ELSE default

SetKey(v, key, value) ==
    JObj([k \in DOMAIN v[2] \cup {key} |-> IF k = key THEN value ELSE v[2][k]])

\* json.load of the file: Raised when it is missing or holds no JSON
JsonLoad(f, path) ==
    IF path \in DOMAIN f /\ f[path][1] = "json" THEN f[path][2] ELSE Raised

RunTypeOf(data) ==
    GetKey(GetKey(GetKey(data, "View", JObj(<<>>)), "Dynamo", JObj(<<>>)),
           "RunType", JStr("Manual"))

\* a new document that holds the run type only
MakeAutomaticOnly(data) ==
    JObj([View |-> JObj([Dynamo |-> JObj([RunType |-> JStr("Automatic")])])])

\* data with View.Dynamo.RunType = "Automatic"
MakeAutomatic(data) ==
    SetKey(data, "View",
           SetKey(GetKey(data, "View", JObj(<<>>)), "Dynamo",
                  SetKey(GetKey(GetKey(data, "View", JObj(<<>>)), "Dynamo", JObj(<<>>)),
                         "RunType", JStr("Automatic"))))

WriteFile(f, path, content) ==
    [p \in DOMAIN f \cup {path} |-> IF p = path THEN content ELSE f[p]]

Outcome(f, value, events) == [fs |-> f, ret |-> value, log |-> events]

\* the rest of check_auto_dynamo_script, run_type in hand
CheckRunType(f, script_path, writable, data, run_type) ==
    IF run_type = Raised THEN Outcome(f, <<script_path, FALSE>>, <<>>)
    ELSE IF run_type = JStr("Automatic")
    THEN Outcome(f, <<script_path, FALSE>>, <<>>)
    ELSE IF ~writable THEN Outcome(f, <<script_path, FALSE>>, <<>>)
    ELSE Outcome(WriteFile(f, TempPath(script_path), <<"json", MakeAutomatic(data)>>),
                 <<TempPath(script_path), TRUE>>,
                 <<<<"write", TempPath(script_path), "json">>>>)

CheckData(f, script_path, writable, data) ==
    CheckRunType(f, script_path, writable, data, RunTypeOf(data))

check_auto_dynamo_script(f, script_path, writable) ==
    CheckData(f, script_path, writable, JsonLoad(f, script_path))

\* cleanup_temp_script: the files afterwards
cleanup_temp_script(f, file_path, locked) ==
    IF file_path \in DOMAIN f /\ ~locked
    THEN [p \in DOMAIN f \ {file_path} |-> f[p]]
    ELSE f

DynamoOutcomes == {"no assembly", "no types", "raised", "Succeeded", "Failed"}

\* the finally clause of run_dynamo_script
\* a cleanup that is skipped when the execution failed
DynamoCleanupOnSuccess(chk, value, events, locked) ==
    IF chk.ret[2] /\ value # "False"
    THEN Outcome(cleanup_temp_script(chk.fs, chk.ret[1], locked), <<value>>,
                 events \o <<<<"cleanup_temp_script", chk.ret[1], "">>,
                             <<"run_dynamo_script returns", chk.ret[1], value>>>>)
    ELSE Outcome(chk.fs, <<value>>,
                 Append(events, <<"run_dynamo_script returns", chk.ret[1], value>>))

DynamoFinally(chk, value, events, locked) ==
    IF chk.ret[2]
    THEN Outcome(cleanup_temp_script(chk.fs, chk.ret[1], locked), <<value>>,
                 events \o <<<<"cleanup_temp_script", chk.ret[1], "">>,
                             <<"run_dynamo_script returns", chk.ret[1], value>>>>)
    ELSE Outcome(chk.fs, <<value>>,
                 Append(events, <<"run_dynamo_script returns", chk.ret[1], value>>))

\* the try block: ExecuteCommand is invoked once the assembly and the types
\* are found
DynamoTry(chk, script_path, config_json, outcome, locked) ==
    DynamoFinally(chk,
                  IF outcome \in {"Succeeded", "Failed"} THEN outcome ELSE "False",
                  <<<<"run_dynamo_script", script_path, config_json>>>>
                     \o <<<<"check_auto_dynamo_script", chk.ret[1],
                            IF chk.ret[2] THEN "temporary" ELSE "original">>>>
                     \o chk.log
                     \o IF outcome \in {"no assembly", "no types"} THEN <<>>
                        ELSE <<<<"ExecuteCommand", chk.ret[1], config_json>>>>,
                  locked)

run_dynamo_script(f, script_path, config_json, outcome, writable, locked) ==
    IF script_path \notin DOMAIN f
    THEN Outcome(f, <<"False">>,
                 <<<<"run_dynamo_script", script_path, config_json>>,
                   <<"run_dynamo_script returns", script_path, "False">>>>)
    ELSE DynamoTry(check_auto_dynamo_script(f, script_path, writable),
                   script_path, config_json, outcome, locked)

run_python_script(f, script_path) ==
    IF script_path \notin DOMAIN f
    THEN Outcome(f, <<"False">>,
                 <<<<"run_python_script", script_path, "">>,
                   <<"run_python_script returns", script_path, "False">>>>)
    ELSE Outcome(f,
                 IF f[script_path] = <<"py", "ok">> THEN <<"True">> ELSE <<"False">>,
                 <<<<"run_python_script", script_path, "">>,
                   <<"exec", script_path, "">>,
                   <<"run_python_script returns", script_path,
                     IF f[script_path] = <<"py", "ok">> THEN "True" ELSE "False">>>>)

\* the dispatcher that hands every supported file to the Dynamo runner
run_script_dynamo_only(f, script_path, config_json, outcome, writable, locked) ==
    IF script_path = <<>> THEN Outcome(f, <<"False">>, <<>>)
    ELSE IF lower(splitext(script_path)[2]) \in {<<".", "d", "y", "n">>, <<".", "p", "y">>}
    THEN run_dynamo_script(f, script_path, config_json, outcome, writable, locked)
    ELSE Outcome(f, <<"False">>, <<>>)

run_script(f, script_path, config_json, outcome, writable, locked) ==
    IF script_path = <<>> THEN Outcome(f, <<"False">>, <<>>)
    ELSE IF lower(splitext(script_path)[2]) = <<".", "d", "y", "n">>
    THEN run_dynamo_script(f, script_path, config_json, outcome, writable, locked)
    ELSE IF lower(splitext(script_path)[2]) = <<".", "p", "y">>
    THEN run_python_script(f, script_path)
    ELSE Outcome(f, <<"False">>, <<>>)

DynPath == <<"s", "/", "a", ".", "d", "y", "n">>
DynUpperPath == <<"s", "/", "A", ".", "D", "Y", "N">>
PyPath == <<"b", ".", "P", "y">>
TextPath == <<"c", ".", "t", "x", "t">>
DotDirPath == <<"v", ".", "p", "y", "/", "d">>
HiddenPath == <<".", "d", "y", "n">>

ScriptPaths == {DynPath, DynUpperPath, PyPath, TextPath, DotDirPath, HiddenPath, <<>>}

Configs == {None, Some("ShowUI")}

Documents ==
    { <<"text">>,
      <<"json", <<"list">>>>,
      <<"json", JObj(<<>>)>>,
      <<"json", JObj([View |-> JStr("x"), Name |-> JStr("n")])>>,
      <<"json", JObj([View |-> JObj([Dynamo |-> <<"null">>])])>>,
      <<"json", JObj([View |-> JObj([Zoom |-> JStr("1")]), Name |-> JStr("n")])>>,
      <<"json", JObj([View |-> JObj([Dynamo |-> JObj([RunType |-> JStr("Automatic")])]),
                      Name |-> JStr("n")])>>,
      <<"json", JObj([View |-> JObj([Dynamo |-> JObj([RunType |-> JStr("Manual"),
                                                       IsVisible |-> JStr("y")]),
                                     Zoom |-> JStr("1")]),
                      Name |-> JStr("n")])>>,
      <<"json", JObj([View |-> JObj([Dynamo |-> JObj([RunType |-> JStr("Periodic")])])])>> }

PythonFiles == {<<"py", "ok">>, <<"py", "raises">>}

\* the files of a session: the Dynamo documents and the Python files are
\* there or missing
DynamoFiles == {DynPath, DynUpperPath, HiddenPath, TextPath}

InitScript ==
    /\ \E d \in Documents \cup {None}, c \in PythonFiles \cup {None} :
          fs = [p \in {q \in DynamoFiles : d # None}
                      \cup {q \in {PyPath, DotDirPath} : c # None}
                   |-> IF p \in DynamoFiles THEN d ELSE c]
    /\ fsBefore = fs
    /\ call = None
    /\ ret = None
    /\ log = <<>>
    /\ tempWritable \in BOOLEAN
    /\ tempLocked \in BOOLEAN
    /\ IdleNotScript

Called(c, out) ==
    /\ call' = Some(c)
    /\ fsBefore' = fs
    /\ fs' = out.fs
    /\ ret' = out.ret
    /\ log' = out.log
    /\ UNCHANGED <<tempWritable, tempLocked, notScriptVars>>

CheckAutoDynamoScript(script_path) ==
    Called(<<"check_auto_dynamo_script", script_path, None>>,
           check_auto_dynamo_script(fs, script_path, tempWritable))

RunDynamoScript(script_path, config_json, outcome) ==
    Called(<<"run_dynamo_script", script_path, config_json>>,
           run_dynamo_script(fs, script_path, config_json, outcome,
                             tempWritable, tempLocked))

RunScript(script_path, config_json, outcome) ==
    Called(<<"run_script", script_path, config_json>>,
           run_script(fs, script_path, config_json, outcome,
                      tempWritable, tempLocked))

NextScript ==
    \/ \E p \in {DynPath, DynUpperPath, PyPath} : CheckAutoDynamoScript(p)
    \/ \E p \in {DynPath, TextPath}, c \in Configs, o \in DynamoOutcomes :
          RunDynamoScript(p, c, o)
    \/ \E p \in ScriptPaths, c \in Configs, o \in {"raised", "Succeeded"} :
          RunScript(p, c, o)

----------------------------------------------------------------------------
(* Make Pattern pattern_config: the naming templates and their editor.     *)
(* A line of the .ini text is <<kind, name, value>>: a "section" header    *)
(* [name], an "option" name = value, a "continuation" of the value before  *)
(* it (a line that starts with a blank), a "comment" (or a blank line) and *)
(* "junk", a line with neither brackets nor a delimiter.  A value is a     *)
(* sequence of parts, <<"text", t>> or the reference <<"ref", option>>     *)
(* that is written %(option)s.                                             *)

DEFAULT_TEMPLATES ==
    "Roofing Patterns" :>
        [corrugated_normal_map |-> "Corrugate-{spacing}x{height}_normal_{size}mm",
         corrugated_bump_map |-> "Corrugate-{spacing}x{height}_bump_{size}mm",
         corrugated_pattern_name |-> "Corrugate {spacing}x{height}",
         corrugated_region_name |-> "Corrugate {spacing}x{height}",
         corrugated_material_name |-> "Roofing - Corrugate {spacing}x{height}",
         trapezoidal_normal_map |->
             "Trapezoidal-{rib_width}x{height}@{spacing}_normal_{size}mm",
         trapezoidal_bump_map |->
             "Trapezoidal-{rib_width}x{height}@{spacing}_bump_{size}mm",
         trapezoidal_pattern_name |-> "Trapezoidal {rib_width}x{height}@{spacing}",
         trapezoidal_region_name |-> "Trapezoidal {rib_width}x{height}@{spacing}",
         trapezoidal_material_name |->
             "Roofing - Trapezoidal {rib_width}x{height}@{spacing}",
         ribbed_normal_map |->
             "Standing Seam-{thickness}x{height}@{spacing}_normal_{size}mm",
         ribbed_bump_map |->
             "Standing Seam-{thickness}x{height}@{spacing}_bump_{size}mm",
         ribbed_pattern_name |-> "Standing Seam {thickness}x{height}@{spacing}",
         ribbed_region_name |-> "Standing Seam {thickness}x{height}@{spacing}",
         ribbed_material_name |->
             "Roofing - Standing Seam {thickness}x{height}@{spacing}"]
    @@ "Brick Patterns" :>
        [stretcher_normal_map |-> "Brick-Stretcher-{width}x{height}_normal_{size}mm",
         stretcher_bump_map |-> "Brick-Stretcher-{width}x{height}_bump_{size}mm",
         stretcher_pattern_name |-> "Brick Stretcher {width}x{height}",
         stretcher_region_name |-> "Brick Stretcher {width}x{height}"]

Text(t) == <<<<"text", t>>>>

\* RawConfigParser._read on one line; st holds the sections read so far,
\* the current section and option, and the error to raise.  A line before
\* the first header raises at once; a line that is no option is remembered
\* and raised after the last line.
ReadLine(st, line) ==
    IF st.error = "MissingSectionHeaderError" \/ line[1] = "comment"
    THEN st
    ELSE IF line[1] = "continuation" /\ st.cursect # None /\ st.optname # None
    THEN IF line[3] = <<>>
         THEN st
         ELSE [st EXCEPT !.sections[st.cursect[1]][st.optname[1]] =
                             @ \o Text("\n") \o line[3]]
    ELSE IF line[1] = "section"
    THEN [st EXCEPT !.sections = IF line[2] \in DOMAIN @
                                 THEN @
                                 ELSE (line[2] :> ("__name__" :> Text(line[2]))) @@ @,
                    !.cursect = Some(line[2]),
                    !.optname = None]
    ELSE IF st.cursect = None
    THEN [st EXCEPT !.error = "MissingSectionHeaderError"]
    ELSE IF line[1] = "option"
    THEN [st EXCEPT !.sections[st.cursect[1]] = (line[2] :> line[3]) @@ @,
                    !.optname = Some(line[2])]
    ELSE [st EXCEPT !.error = "ParsingError"]

RECURSIVE ReadLines(_, _, _)
ReadLines(lines, i, st) ==
    IF i > Len(lines) THEN st ELSE ReadLines(lines, i + 1, ReadLine(st, lines[i]))

\* RawConfigParser.readfp / ConfigParser.read of a text:
\* <<"sections", the sections>> or <<"raises", the ConfigParser.Error>>
readfp(lines) ==
    IF ReadLines(lines, 1,
                 [sections |-> <<>>, cursect |-> None, optname |-> None,
                  error |-> ""]).error # ""
    THEN <<"raises", ReadLines(lines, 1,
                 [sections |-> <<>>, cursect |-> None, optname |-> None,
                  error |-> ""]).error>>
    ELSE <<"sections", ReadLines(lines, 1,
                 [sections |-> <<>>, cursect |-> None, optname |-> None,
                  error |-> ""]).sections>>

\* load_config, of the file _find_config_path found: a parser that has read
\* the file, an empty parser when there is no file, None when reading raises
load_config(file) ==
    IF file = None
    THEN <<"ConfigParser", <<>>>>
    ELSE IF readfp(file[1])[1] = "raises"
    THEN <<"None">>
    ELSE <<"ConfigParser", readfp(file[1])[2]>>

HasReference(value) == \E i \in DOMAIN value : value[i][1] = "ref"

\* value % vars: each %(option)s replaced by the option's value
RECURSIVE Substitute(_, _)
Substitute(options, value) ==
    IF value = <<>>
    THEN <<>>
    ELSE (IF Head(value)[1] = "ref" THEN options[Head(value)[2]] ELSE <<Head(value)>>)
             \o Substitute(options, Tail(value))

\* ConfigParser._interpolate: <<"returns", value>> or <<"raises", error>>
RECURSIVE Interpolate(_, _, _)
Interpolate(options, value, depth) ==
    IF ~HasReference(value)
    THEN <<"returns", value>>
    ELSE IF depth = 0
    THEN <<"raises", "InterpolationDepthError">>
    ELSE IF \E i \in DOMAIN value :
                value[i][1] = "ref" /\ value[i][2] \notin DOMAIN options
    THEN <<"raises", "InterpolationMissingOptionError">>
    ELSE Interpolate(options, Substitute(options, value), depth - 1)

\* a get_template whose config.get is given raw=True
get_template_raw(conf, section, key) ==
    IF /\ conf[1] = "ConfigParser"
       /\ section \in DOMAIN conf[2]
       /\ key \in DOMAIN conf[2][section]
    THEN <<"returns", conf[2][section][key]>>
    ELSE IF section \in DOMAIN DEFAULT_TEMPLATES
            /\ key \in DOMAIN DEFAULT_TEMPLATES[section]
    THEN <<"returns", Text(DEFAULT_TEMPLATES[section][key])>>
    ELSE <<"returns", Text("DefaultName")>>

\* get_template; config.get of a ConfigParser.ConfigParser interpolates,
\* at most MAX_INTERPOLATION_DEPTH = 10 times
get_template(conf, section, key) ==
    IF /\ conf[1] = "ConfigParser"
       /\ section \in DOMAIN conf[2]
       /\ key \in DOMAIN conf[2][section]
    THEN Interpolate(conf[2][section], conf[2][section][key], 10)
    ELSE IF section \in DOMAIN DEFAULT_TEMPLATES
            /\ key \in DOMAIN DEFAULT_TEMPLATES[section]
    THEN <<"returns", Text(DEFAULT_TEMPLATES[section][key])>>
    ELSE <<"returns", Text("DefaultName")>>

\* the outcome of a handler of the editor window
Editor(file, dialog, open, feedback) ==
    [ini |-> file, DialogResult |-> dialog, isOpen |-> open, Feedback |-> feedback]

\* a save_config that writes the text before it validates it
save_config_unvalidated(file, text, dialog, disk) ==
    IF disk = "open fails"
    THEN Editor(file, dialog, TRUE, <<"pink", "Error">>)
    ELSE IF disk = "write fails"
    THEN Editor(Some(<<>>), dialog, TRUE, <<"pink", "Error">>)
    ELSE IF readfp(text)[1] = "raises"
    THEN Editor(Some(text), dialog, TRUE, <<"pink", "Invalid INI Format">>)
    ELSE Editor(Some(text), "True", FALSE, <<"white", "Editing">>)

\* ConfigEditorWindow.save_config; disk says whether opening the file for
\* writing, which empties it, and the writing succeed
save_config(file, text, dialog, disk) ==
    IF readfp(text)[1] = "raises"
    THEN Editor(file, dialog, TRUE, <<"pink", "Invalid INI Format">>)
    ELSE IF disk = "open fails"
    THEN Editor(file, dialog, TRUE, <<"pink", "Error">>)
    ELSE IF disk = "write fails"
    THEN Editor(Some(<<>>), dialog, TRUE, <<"pink", "Error">>)
    ELSE Editor(Some(text), "True", FALSE, <<"white", "Editing">>)

\* ConfigEditorWindow.saved_text
saved_text == IF DialogResult = "True" THEN Some(config_text) ELSE None

----------------------------------------------------------------------------
(* A session with the configuration: the editor is open on the text of the *)
(* file, the user types and deletes lines, saves or cancels; a run of a    *)
(* pattern button loads the configuration and asks for templates.          *)

MaxIniLines == 2

HeaderRoofing == <<"section", "Roofing Patterns", <<>>>>
PatternOption == <<"option", "corrugated_pattern_name", Text("Roof {spacing}")>>
RegionOption ==
    <<"option", "corrugated_region_name",
      <<<<"ref", "corrugated_pattern_name">>, <<"text", " region">>>>>>
Continuation == <<"continuation", "", Text("x{height}")>>
Comment == <<"comment", "", <<>>>>
Junk == <<"junk", "", <<>>>>

IniLines == {HeaderRoofing, PatternOption, RegionOption, Continuation, Comment, Junk}

TemplateSections == {"Roofing Patterns", "Brick Patterns", "Wall Patterns"}

TemplateKeys ==
    {"corrugated_pattern_name", "corrugated_region_name", "stretcher_pattern_name",
     "tile_pattern_name"}

DiskOutcomes == {"ok", "open fails", "write fails"}

\* the file a session starts from: none, an empty one, a header alone, a
\* text with no header, one with a line that is no option, and one whose
\* option refers to an option that is not there
InitialFiles ==
    {None, Some(<<>>), Some(<<HeaderRoofing>>), Some(<<Junk>>),
     Some(<<HeaderRoofing, Junk>>), Some(<<HeaderRoofing, RegionOption>>)}

\* ConfigEditorWindow.__init__ on the text of the file, as edit_config
\* opens it; a missing file starts from an empty text here
InitConfig ==
    /\ \E f \in InitialFiles :
          /\ ini = f
          /\ config_text = IF f = None THEN <<>> ELSE f[1]
    /\ iniBefore = ini
    /\ config = <<"unset">> /\ template = None /\ configCall = None
    /\ DialogResult = "None" /\ isOpen = TRUE
    /\ Feedback = <<"white", "Editing">>
    /\ IdleNotConfig

TypeIniLine(line) ==
    /\ isOpen /\ Len(config_text) < MaxIniLines
    /\ config_text' = Append(config_text, line)
    /\ configCall' = <<"type">>
    /\ iniBefore' = ini
    /\ UNCHANGED <<ini, config, template, DialogResult, isOpen, Feedback, notConfigVars>>

DeleteLine ==
    /\ isOpen /\ config_text # <<>>
    /\ config_text' = SubSeq(config_text, 1, Len(config_text) - 1)
    /\ configCall' = <<"delete">>
    /\ iniBefore' = ini
    /\ UNCHANGED <<ini, config, template, DialogResult, isOpen, Feedback, notConfigVars>>

Handled(out) ==
    /\ ini' = out.ini /\ DialogResult' = out.DialogResult
    /\ isOpen' = out.isOpen /\ Feedback' = out.Feedback
    /\ iniBefore' = ini
    /\ UNCHANGED <<config, template, config_text, notConfigVars>>

SaveConfig(disk) ==
    /\ isOpen
    /\ configCall' = <<"save_config", disk>>
    /\ Handled(save_config(ini, config_text, DialogResult, disk))

\* ConfigEditorWindow.cancel
Cancel ==
    /\ isOpen
    /\ configCall' = <<"cancel">>
    /\ Handled(Editor(ini, "False", FALSE, Feedback))

LoadConfig ==
    /\ ~isOpen
    /\ config' = load_config(ini)
    /\ configCall' = <<"load_config">>
    /\ iniBefore' = ini
    /\ UNCHANGED <<ini, template, config_text, DialogResult, isOpen, Feedback,
                   notConfigVars>>

GetTemplate(section, key) ==
    /\ config # <<"unset">>
    /\ template' = get_template(config, section, key)
    /\ configCall' = <<"get_template", section, key>>
    /\ iniBefore' = ini
    /\ UNCHANGED <<ini, config, config_text, DialogResult, isOpen, Feedback,
                   notConfigVars>>

NextConfig ==
    \/ \E line \in IniLines : TypeIniLine(line)
    \/ DeleteLine
    \/ \E disk \in DiskOutcomes : SaveConfig(disk)
    \/ Cancel
    \/ LoadConfig
    \/ \E section \in TemplateSections, key \in TemplateKeys : GetTemplate(section, key)

----------------------------------------------------------------------------
(* Properties of script_manager.                                           *)

LastCallOf(function) == call # None /\ call[1][1] = function

Events(kind) == {i \in 1..Len(log) : log[i][1] = kind}

\* C6: when run_dynamo_script runs a temporary copy, cleanup_temp_script is
\* called on that copy before run_dynamo_script returns, whether Dynamo
\* executed and returned, the assembly or the types were not found, or the
\* execution raised; when it runs the original file no file is deleted.
C6_TemporaryCopyCleanedUp ==
    \A i \in Events("check_auto_dynamo_script") :
        IF log[i][3] = "temporary"
        THEN \E j \in Events("cleanup_temp_script"), r \in Events("run_dynamo_script returns") :
                i < j /\ j < r /\ log[j][2] = log[i][2]
        ELSE /\ Events("cleanup_temp_script") = {}
             /\ DOMAIN fsBefore \subseteq DOMAIN fs

\* a temporary copy was written and handed to Dynamo, the execution raised,
\* and the copy is gone when run_dynamo_script has returned False
C6_Witness ==
    /\ LastCallOf("run_dynamo_script") /\ ret = <<"False">>
    /\ \E i \in Events("check_auto_dynamo_script") :
          /\ log[i][3] = "temporary"
          /\ log[i][2] \notin DOMAIN fs
          /\ \E j \in Events("ExecuteCommand") : log[j][2] = log[i][2]

IsObject(v) == v[1] = "obj"

HasKey(v, key) == IsObject(v) /\ key \in DOMAIN v[2]

\* the document can be read down to View.Dynamo
Convertible(doc) ==
    /\ IsObject(doc)
    /\ HasKey(doc, "View") =>
          /\ IsObject(doc[2].View)
          /\ HasKey(doc[2].View, "Dynamo") => IsObject(doc[2].View[2].Dynamo)

IsAutomatic(doc) ==
    /\ HasKey(doc, "View") /\ HasKey(doc[2].View, "Dynamo")
    /\ HasKey(doc[2].View[2].Dynamo, "RunType")
    /\ doc[2].View[2].Dynamo[2].RunType = JStr("Automatic")

\* new holds the entries of old, and the entry key besides
SameBut(new, old, key) ==
    /\ IsObject(new)
    /\ DOMAIN new[2] = (IF IsObject(old) THEN DOMAIN old[2] ELSE {}) \cup {key}
    /\ \A k \in DOMAIN new[2] \ {key} : new[2][k] = old[2][k]

SubObject(v, key) == IF HasKey(v, key) THEN v[2][key] ELSE <<"absent">>

\* new is the JSON of old with View.Dynamo.RunType set to "Automatic"
AutomaticCopy(new, old) ==
    /\ SameBut(new, old, "View")
    /\ SameBut(new[2].View, SubObject(old, "View"), "Dynamo")
    /\ SameBut(new[2].View[2].Dynamo, SubObject(SubObject(old, "View"), "Dynamo"),
               "RunType")
    /\ new[2].View[2].Dynamo[2].RunType = JStr("Automatic")

Unwritten(path) ==
    IF path \in DOMAIN fsBefore
    THEN path \in DOMAIN fs /\ fs[path] = fsBefore[path]
    ELSE path \notin DOMAIN fs

\* C7: check_auto_dynamo_script returns (script_path, False) when
\* View.Dynamo.RunType is "Automatic"; for any other or a missing RunType it
\* returns (temp_path, True), temp_path a different file that holds the same
\* JSON with View.Dynamo.RunType = "Automatic"; when reading or converting
\* fails it returns (script_path, False); the original file is never written.
C7_CheckAutoDynamoScript ==
    /\ call # None => Unwritten(call[1][2])
    /\ LastCallOf("check_auto_dynamo_script") =>
          IF JsonLoad(fsBefore, call[1][2]) = Raised
          THEN ret = <<call[1][2], FALSE>>
          ELSE IF ~Convertible(JsonLoad(fsBefore, call[1][2]))
          THEN ret = <<call[1][2], FALSE>>
          ELSE IF IsAutomatic(JsonLoad(fsBefore, call[1][2]))
          THEN ret = <<call[1][2], FALSE>> /\ fs = fsBefore
          ELSE IF ~tempWritable
          THEN ret = <<call[1][2], FALSE>>
          ELSE /\ ret[2] = TRUE
               /\ ret[1] # call[1][2]
               /\ ret[1] \in DOMAIN fs
               /\ fs[ret[1]][1] = "json"
               /\ AutomaticCopy(fs[ret[1]][2], JsonLoad(fsBefore, call[1][2]))

\* a Manual document with other entries at every level was converted
C7_Witness ==
    /\ LastCallOf("check_auto_dynamo_script")
    /\ ret[2] = TRUE
    /\ HasKey(fsBefore[call[1][2]][2], "Name")
    /\ HasKey(fsBefore[call[1][2]][2], "View")
    /\ HasKey(fsBefore[call[1][2]][2][2].View, "Zoom")
    /\ HasKey(fsBefore[call[1][2]][2][2].View, "Dynamo")
    /\ HasKey(fsBefore[call[1][2]][2][2].View[2].Dynamo, "IsVisible")
    /\ HasKey(fsBefore[call[1][2]][2][2].View[2].Dynamo, "RunType")
    /\ fsBefore[call[1][2]][2][2].View[2].Dynamo[2].RunType = JStr("Manual")
    /\ fs[ret[1]][2][2].View[2].Dynamo[2].RunType = JStr("Automatic")
    /\ fs[ret[1]][2][2].Name = fsBefore[call[1][2]][2][2].Name

\* the path ends in a dot and the letters of ext, in any case, after a name
\* of the last component that is not made of dots only
HasExtension(path, ext) ==
    LET dot == Len(path) - Len(ext)
    IN  /\ dot >= 1 /\ path[dot] = "."
        /\ lower(SubSeq(path, dot + 1, Len(path))) = ext
        /\ \E j \in 1..(dot - 1) :
              /\ path[j] # "."
              /\ \A n \in j..(dot - 1) : path[n] # "/"

RunnerEvents ==
    Events("run_dynamo_script") \cup Events("run_python_script")
        \cup Events("ExecuteCommand") \cup Events("exec")

\* C8: run_script returns False and runs nothing for an empty path and for
\* an extension that is, in any case of its letters, neither .dyn nor .py;
\* it hands a .dyn path to run_dynamo_script only, with config_json, and a
\* .py path to run_python_script only; it returns what that runner returns.
C8_RunScriptDispatch ==
    LastCallOf("run_script") =>
        IF HasExtension(call[1][2], <<"d", "y", "n">>)
        THEN /\ log[1][1] = "run_dynamo_script"
             /\ log[1][2] = call[1][2] /\ log[1][3] = call[1][3]
             /\ Events("run_python_script") \cup Events("exec") = {}
             /\ log[Len(log)][1] = "run_dynamo_script returns"
             /\ ret = <<log[Len(log)][3]>>
        ELSE IF HasExtension(call[1][2], <<"p", "y">>)
        THEN /\ log[1][1] = "run_python_script"
             /\ log[1][2] = call[1][2]
             /\ Events("run_dynamo_script") \cup Events("ExecuteCommand") = {}
             /\ log[Len(log)][1] = "run_python_script returns"
             /\ ret = <<log[Len(log)][3]>>
        ELSE ret = <<"False">> /\ RunnerEvents = {} /\ fs = fsBefore

\* a path ending in .DYN went to Dynamo with its configuration, and
\* run_script returned Dynamo's result
C8_Witness ==
    /\ LastCallOf("run_script")
    /\ call[1][2] = DynUpperPath /\ call[1][3] = Some("ShowUI")
    /\ ret = <<"Succeeded">>
    /\ \E j \in Events("ExecuteCommand") : log[j][3] = Some("ShowUI")

----------------------------------------------------------------------------
(* Properties of pattern_config.                                           *)

LastConfigCall(function) == configCall # None /\ configCall[1] = function

\* the text parses: no junk, every option below a header, every
\* continuation below an option with only comments and continuations between
ValidIni(lines) ==
    \A i \in DOMAIN lines :
        /\ lines[i][1] # "junk"
        /\ lines[i][1] = "option" => \E j \in 1..(i - 1) : lines[j][1] = "section"
        /\ lines[i][1] = "continuation" =>
              \E j \in 1..(i - 1) :
                  /\ lines[j][1] = "option"
                  /\ \A k \in (j + 1)..(i - 1) :
                        lines[k][1] \in {"comment", "continuation"}

\* the lines of the text that give the option key of the section
OptionLines(lines, section, key) ==
    {i \in DOMAIN lines :
        /\ lines[i][1] = "option" /\ lines[i][2] = key
        /\ \E j \in 1..(i - 1) :
              /\ lines[j] = <<"section", section, <<>>>>
              /\ \A k \in (j + 1)..(i - 1) : lines[k][1] # "section"}

\* the value written from line i on, with its continuation lines
RECURSIVE WrittenValue(_, _, _)
WrittenValue(lines, i, value) ==
    IF i > Len(lines) \/ lines[i][1] \notin {"comment", "continuation"}
    THEN value
    ELSE WrittenValue(lines, i + 1,
                      IF lines[i][1] = "continuation"
                      THEN value \o Text("\n") \o lines[i][3]
                      ELSE value)

\* the value the file gives the option, None when it gives none or is broken
FileValue(file, section, key) ==
    IF file = None \/ ~ValidIni(file[1]) \/ OptionLines(file[1], section, key) = {}
    THEN None
    ELSE LET i == CHOOSE i \in OptionLines(file[1], section, key) :
                      \A j \in OptionLines(file[1], section, key) : j <= i
         IN  Some(WrittenValue(file[1], i + 1, file[1][i][3]))

DefaultValue(section, key) ==
    IF section \in DOMAIN DEFAULT_TEMPLATES /\ key \in DOMAIN DEFAULT_TEMPLATES[section]
    THEN Text(DEFAULT_TEMPLATES[section][key])
    ELSE Text("DefaultName")

\* C9: get_template returns the config file's value when the config has the
\* section and the key, otherwise the DEFAULT_TEMPLATES entry, otherwise
\* "DefaultName"; load_config returns None for a file that cannot be read,
\* and then every template is its default.
C9_TemplateFromConfigOrDefault ==
    /\ LastConfigCall("load_config") /\ ini # None /\ ~ValidIni(ini[1]) =>
          config = <<"None">>
    /\ LastConfigCall("get_template") =>
          /\ template[1] = "returns"
          /\ template[2] =
                IF FileValue(ini, configCall[2], configCall[3]) # None
                THEN FileValue(ini, configCall[2], configCall[3])[1]
                ELSE DefaultValue(configCall[2], configCall[3])

\* what holds of get_template: the same, for a value of the file that has
\* no %(option)s in it
C9_TemplateWithoutReferences ==
    /\ LastConfigCall("load_config") /\ ini # None /\ ~ValidIni(ini[1]) =>
          config = <<"None">>
    /\ LastConfigCall("get_template") =>
          IF FileValue(ini, configCall[2], configCall[3]) = None
          THEN template = <<"returns", DefaultValue(configCall[2], configCall[3])>>
          ELSE ~HasReference(FileValue(ini, configCall[2], configCall[3])[1]) =>
                  template = <<"returns", FileValue(ini, configCall[2], configCall[3])[1]>>

\* the file gives corrugated_region_name a value, and get_template raised
C9_Witness ==
    /\ LastConfigCall("get_template")
    /\ FileValue(ini, configCall[2], configCall[3]) # None
    /\ template[1] = "raises"

\* the file of a None config is read as broken, and a template of the
\* defaults came back
C9_FallbackWitness ==
    /\ LastConfigCall("get_template") /\ config = <<"None">>
    /\ template = <<"returns", Text("Corrugate {spacing}x{height}")>>

\* C10: save_config writes the text to the save path and closes the window
\* with DialogResult = True only if the text parses; if it does not parse
\* the file is not written and the window stays open and shows the error;
\* if writing fails the window stays open and DialogResult is not True.
C10_SaveOnlyValidText ==
    /\ saved_text # None =>
          ValidIni(config_text) /\ ini = Some(config_text) /\ ~isOpen
    /\ LastConfigCall("save_config") =>
          IF ~ValidIni(config_text)
          THEN /\ ini = iniBefore /\ isOpen /\ DialogResult # "True"
               /\ Feedback = <<"pink", "Invalid INI Format">>
          ELSE IF configCall[2] # "ok"
          THEN isOpen /\ DialogResult # "True" /\ Feedback = <<"pink", "Error">>
          ELSE ini = Some(config_text) /\ ~isOpen /\ DialogResult = "True"

\* a text that does not parse was refused: the file is as it was, the
\* window is open
C10_Witness ==
    /\ LastConfigCall("save_config") /\ configCall[2] = "ok"
    /\ ~ValidIni(config_text)
    /\ iniBefore = Some(<<HeaderRoofing>>) /\ ini = iniBefore /\ isOpen

\* a text with a header and an option was saved, and the window closed
C10_SavedWitness ==
    /\ LastConfigCall("save_config")
    /\ saved_text = Some(<<HeaderRoofing, PatternOption>>)
    /\ ini = Some(config_text) /\ ~isOpen

----------------------------------------------------------------------------
(* Make Roofing Pattern: calculate_dimensions, in internal units (feet).   *)

\* 300.0 / 304.8 if IS_METRIC else 1.0
MinWidth(metric) == IF metric THEN Rat(3000, 3048) ELSE I(1)

\* a repeat count that is rounded down
RepeatsFloored(target, rib_spacing_int) == floor(RDiv(target, rib_spacing_int))

\* int(ceil(target_real_world_width / rib_spacing_int))
Repeats(target, rib_spacing_int) == ceil(RDiv(target, rib_spacing_int))

Dimensions(num_repeats, rib_spacing_int) ==
    <<RMul(I(num_repeats), rib_spacing_int), num_repeats>>

calculate_dimensions(rib_spacing_int, metric) ==
    Dimensions(Repeats(RMax(MinWidth(metric), RMul(rib_spacing_int, I(3))),
                       rib_spacing_int),
               rib_spacing_int)

MaxRibSpacing == 16

\* the rib spacings of a session: whole feet, quarters, sevenths, tenths
\* and hundredths of a foot, and n mm and 10 n mm (1 mm = 10/3048 ft)
RibSpacings ==
    {Rat(n, d) : n \in 1..MaxRibSpacing, d \in {1, 4, 7, 10, 100}}
        \cup {Rat(10 * n * k, 3048) : n \in 1..MaxRibSpacing, k \in {1, 10}}

InitDims ==
    /\ IS_METRIC \in BOOLEAN
    /\ rib_spacing = None /\ dimensions = None
    /\ IdleNotDims

CalculateDimensions(s) ==
    /\ rib_spacing' = Some(s)
    /\ dimensions' = calculate_dimensions(s, IS_METRIC)
    /\ UNCHANGED <<IS_METRIC, notDimsVars>>

\* the Metric radio button of the window
SetMetric(metric) ==
    /\ metric # IS_METRIC
    /\ IS_METRIC' = metric
    /\ rib_spacing' = None /\ dimensions' = None
    /\ UNCHANGED notDimsVars

NextDims ==
    \/ \E s \in RibSpacings : CalculateDimensions(s)
    \/ \E metric \in BOOLEAN : SetMetric(metric)

----------------------------------------------------------------------------
(* Properties of calculate_dimensions.                                     *)

C11_ThreeRepeatsWitness ==
    /\ ~IS_METRIC /\ rib_spacing = Some(I(2)) /\ dimensions = <<I(6), 3>>

----------------------------------------------------------------------------
(* Make Roofing Pattern and pattern_utils: creation of Revit elements.     *)
(* An element is [id, class, name, grids, pattern]; a transaction either   *)
(* "commits", "raises" inside its body, which rolls it back, or its        *)
(* "commit fails", which rolls it back without an exception.               *)

Element(id, class, name, grids, pattern) ==
    [id |-> id, class |-> class, name |-> name, grids |-> grids, pattern |-> pattern]

\* the name with its capitals lowered, for the names of a session
LowerName(name) == IF name = "Roof" THEN "roof" ELSE name

\* DB.FillPatternElement.GetFillPatternElementByName(doc, Model, pattern_name)
GetFillPatternElementByName(doc, name) ==
    {e \in doc : e.class = "ModelPattern" /\ e.name = name}

\* FilteredElementCollector(doc).OfClass(FilledRegionType).WherePasses(name rule)
FilledRegionTypesNamed(doc, name, sensitive) ==
    {e \in doc : /\ e.class = "FilledRegionType"
                 /\ IF sensitive THEN e.name = name
                    ELSE LowerName(e.name) = LowerName(name)}

\* the id of a new element: that of its class and name when it is the
\* first of them in the document, an id past all of those otherwise
NewId(doc, class, name) ==
    IF \E e \in doc : e.class = class /\ e.name = name
    THEN 10 + Cardinality(doc)
    ELSE (IF class = "ModelPattern" THEN 1 ELSE 5) + (IF name = "Roof" THEN 0 ELSE 1)

\* grids of create_revit_fill_pattern, each by its origin
FillGrids(profile_type) ==
    IF profile_type = "Corrugated" THEN <<"0">>
    ELSE IF profile_type = "Trapezoidal" THEN <<"0", "rib_width">>
    ELSE IF profile_type = "Ribbed" THEN <<"spacing / 2">>
    ELSE <<>>

DocOutcome(doc, value, opened) == [elements |-> doc, ret |-> value, transactions |-> opened]

\* a create_revit_fill_pattern that does not look for the name first
create_revit_fill_pattern_unchecked(doc, pattern_name, profile_type, txn) ==
    IF txn = "raises"
    THEN DocOutcome(doc, <<0, "error">>, <<<<"Create Fill Pattern", pattern_name>>>>)
    ELSE DocOutcome(
             IF txn = "commits"
             THEN doc \cup {Element(NewId(doc, "ModelPattern", pattern_name), "ModelPattern", pattern_name,
                                    FillGrids(profile_type), 0)}
             ELSE doc,
             <<NewId(doc, "ModelPattern", pattern_name), "created successfully">>,
             <<<<"Create Fill Pattern", pattern_name>>>>)

\* create_revit_fill_pattern: <<the element's id or 0 for None, status>>
create_revit_fill_pattern(doc, pattern_name, profile_type, txn) ==
    IF GetFillPatternElementByName(doc, pattern_name) # {}
    THEN DocOutcome(doc,
                    <<(CHOOSE e \in GetFillPatternElementByName(doc, pattern_name) :
                           TRUE).id, "already exists">>,
                    <<>>)
    ELSE IF txn = "raises"
    THEN DocOutcome(doc, <<0, "error">>, <<<<"Create Fill Pattern", pattern_name>>>>)
    ELSE DocOutcome(
             IF txn = "commits"
             THEN doc \cup {Element(NewId(doc, "ModelPattern", pattern_name), "ModelPattern", pattern_name,
                                    FillGrids(profile_type), 0)}
             ELSE doc,
             <<NewId(doc, "ModelPattern", pattern_name), "created successfully">>,
             <<<<"Create Fill Pattern", pattern_name>>>>)

\* create_filled_region_type (both copies): <<True or False, status>>;
\* fill_pattern_element is an id, 0 for None, whose .Id raises after the
\* type has been duplicated
create_filled_region_type(doc, filled_region_name, fill_pattern_element, sensitive, txn) ==
    IF FilledRegionTypesNamed(doc, filled_region_name, sensitive) # {}
    THEN DocOutcome(doc, <<FALSE, "already exists">>, <<>>)
    ELSE IF txn = "raises" \/ fill_pattern_element = 0
    THEN DocOutcome(doc, <<FALSE, "error">>,
                    <<<<"Create Filled Region Type", filled_region_name>>>>)
    ELSE DocOutcome(
             IF txn = "commits"
             THEN doc \cup {Element(NewId(doc, "FilledRegionType", filled_region_name),
                            "FilledRegionType", filled_region_name,
                                    <<>>, fill_pattern_element)}
             ELSE doc,
             <<TRUE, "created successfully">>,
             <<<<"Create Filled Region Type", filled_region_name>>>>)

ElementNames == {"Roof", "roof"}

ProfileTypes == {"Corrugated", "Trapezoidal", "Ribbed"}

TransactionOutcomes == {"commits", "raises", "commit fails"}

\* the elements a document may hold when the session starts: one of a
\* class and name at most, as Revit keeps them, a drafting pattern among them
InitialElements ==
    {Element(1, "ModelPattern", "Roof", <<>>, 0),
     Element(3, "DraftingPattern", "roof", <<>>, 0),
     Element(5, "FilledRegionType", "Roof", <<>>, 1)}

InitDoc ==
    /\ elements \in SUBSET InitialElements
    /\ elementsBefore = elements
    /\ caseSensitive \in BOOLEAN
    /\ docCall = None /\ docRet = None /\ transactions = <<>>
    /\ IdleNotDoc

DocCalled(c, out) ==
    /\ docCall' = c
    /\ elementsBefore' = elements
    /\ elements' = out.elements
    /\ docRet' = out.ret
    /\ transactions' = out.transactions
    /\ UNCHANGED <<caseSensitive, notDocVars>>

CreateFillPattern(name, profile_type, txn) ==
    DocCalled(<<"create_revit_fill_pattern", name>>,
              create_revit_fill_pattern(elements, name, profile_type, txn))

CreateFilledRegionType(name, pattern, txn) ==
    DocCalled(<<"create_filled_region_type", name>>,
              create_filled_region_type(elements, name, pattern, caseSensitive, txn))

NextDoc ==
    \/ \E name \in ElementNames, p \in ProfileTypes, txn \in TransactionOutcomes :
          CreateFillPattern(name, p, txn)
    \/ \E name \in ElementNames, txn \in TransactionOutcomes :
          \E pattern \in {0} \cup {e.id : e \in
                              GetFillPatternElementByName(elements, name)} :
              CreateFilledRegionType(name, pattern, txn)

----------------------------------------------------------------------------
(* Properties of the creation of elements.                                 *)

Named(class, name) == {e \in elements : e.class = class /\ e.name = name}

NamedBefore(class, name) ==
    {e \in elementsBefore : e.class = class /\ e.name = name}

\* C12: create_revit_fill_pattern and create_filled_region_type create no
\* element when a model fill pattern (filled region type) of the requested
\* name exists: no transaction is opened and "already exists" is reported,
\* with the existing pattern (with False); so there is at most one model
\* fill pattern and one filled region type of a name after any calls.
C12_CreationByNameIdempotent ==
    /\ \A name \in ElementNames :
          /\ Cardinality(Named("ModelPattern", name)) <= 1
          /\ Cardinality(Named("FilledRegionType", name)) <= 1
    /\ (docCall # None /\ docCall[1] = "create_revit_fill_pattern"
            /\ NamedBefore("ModelPattern", docCall[2]) # {}) =>
          /\ elements = elementsBefore /\ transactions = <<>>
          /\ docRet[2] = "already exists"
          /\ docRet[1] \in {e.id : e \in NamedBefore("ModelPattern", docCall[2])}
    /\ (docCall # None /\ docCall[1] = "create_filled_region_type"
            /\ NamedBefore("FilledRegionType", docCall[2]) # {}) =>
          /\ elements = elementsBefore /\ transactions = <<>>
          /\ docRet = <<FALSE, "already exists">>

\* a second create_revit_fill_pattern of a name the session created itself
C12_Witness ==
    /\ docCall = <<"create_revit_fill_pattern", "roof">>
    /\ docRet[2] = "already exists"
    /\ \E e \in elements : e.id = docRet[1] /\ e.grids = <<"0", "rib_width">>
                             /\ e.name = "roof" /\ e.class = "ModelPattern"
    /\ \E e \in elements : e.class = "DraftingPattern" /\ e.name = "roof"

-----------------------------------------------------------------------------
(* LoadParametersToFamily: script.py                                       *)
(*                                                                         *)
(* A family parameter is a record with the identity of the Revit object    *)
(* (id), its Definition.Name, its group, formula and value and whether it  *)
(* is shared.  The family has one type, and it is no curtain wall door.    *)
(* A row of the sheet is a record of the columns main() reads.  The        *)
(* Transaction of pyrevit starts on entry, commits on a normal exit, and   *)
(* on an exception rolls back and lets the exception end the script.       *)

FamilyParameter(id, name, group, formula, value, shared) ==
    [id |-> id, name |-> name, group |-> group, formula |-> formula,
     value |-> value, shared |-> shared]

SheetRow(parameter, type, group, formula, dependents, value, override, oldName) ==
    [Parameter |-> parameter, Type |-> type, Group |-> group,
     Formula |-> formula, Dependents |-> dependents, Value |-> value,
     FormulaOverride |-> override, ValueOverride |-> override,
     OldName |-> oldName]

ParameterTypes == {"Length", "Text"}
SharedParams == {"Code", "Mark"}

HasName(fam, name) == \E j \in DOMAIN fam : fam[j].name = name

NextParameterId(fam) ==
    1 + Len(fam) + Cardinality({j \in DOMAIN fam : fam[j].id > Len(fam)})

AtId(fam, id) == CHOOSE j \in DOMAIN fam : fam[j].id = id

familyHasParameter(fam, params, parameterName) ==
    IF \E k \in DOMAIN params : \E j \in DOMAIN fam :
           fam[j].id = params[k] /\ fam[j].name = parameterName
    THEN params[CHOOSE k \in DOMAIN params :
                  /\ \E j \in DOMAIN fam :
                        fam[j].id = params[k] /\ fam[j].name = parameterName
                  /\ \A h \in 1..(k - 1) : \A j \in DOMAIN fam :
                        ~(fam[j].id = params[h] /\ fam[j].name = parameterName)]
    ELSE 0

Names(fam) == [j \in DOMAIN fam |-> fam[j].name]
Ids(fam) == [j \in DOMAIN fam |-> fam[j].id]
InList(x, list) == \E k \in DOMAIN list : list[k] = x

(* The with statement of lines 158 and 293: the transaction that is open   *)
(* inside the block.                                                       *)
TransactionNotStarted(name) == "none"
Transaction(name) == name

(* replaceParam and line 191, as <<param, family, raised>>: when the       *)
(* second ReplaceParameter fails, replaceParam returns False for the       *)
(* parameter and line 191 reads its Definition.                            *)
replaceParam(fam, param, p) ==
    IF p.Parameter \in SharedParams /\ ~HasName(fam, p.Parameter)
    THEN <<NextParameterId(fam),
           [fam EXCEPT ![AtId(fam, param)] =
               FamilyParameter(NextParameterId(fam), p.Parameter, p.Group,
                               @.formula, @.value, TRUE)],
           FALSE>>
    ELSE <<0, fam, TRUE>>

RenameParameter(fam, param, p) ==
    IF HasName(fam, p.Parameter) \/ fam[AtId(fam, param)].shared
    THEN <<0, fam, TRUE>>
    ELSE <<param, [fam EXCEPT ![AtId(fam, param)].name = p.Parameter], FALSE>>

FoundByOldName(fam, param, p) ==
    IF param # 0 /\ p.Type = "REPLACE" THEN replaceParam(fam, param, p)
    ELSE IF param # 0 /\ p.Type = "RENAME" THEN RenameParameter(fam, param, p)
    ELSE <<param, fam, FALSE>>

(* Lines 183 to 205, as <<param, family, raised>>; paramNames and params are    *)
(* the lists of lines 134 and 135, read before the transaction.            *)
FindParameter(fam, params, paramNames, p) ==
    IF InList(p.Parameter, paramNames)
    THEN <<familyHasParameter(fam, params, p.Parameter), fam, FALSE>>
    ELSE IF p.OldName # "" /\ InList(p.OldName, paramNames)
    THEN FoundByOldName(fam, familyHasParameter(fam, params, p.OldName), p)
    ELSE <<0, fam, FALSE>>

AddParameter(fam, p, shared) ==
    IF HasName(fam, p.Parameter) THEN <<0, fam, TRUE>>
    ELSE <<NextParameterId(fam),
           Append(fam, FamilyParameter(NextParameterId(fam), p.Parameter,
                                       p.Group, "", "", shared)),
           FALSE>>

(* Lines 206 to 236, as <<param, family, raised, errorItems, isNew>>.      *)
AddIfMissing(found, p, errors) ==
    IF found[3] \/ found[1] # 0 THEN found \o <<errors, FALSE>>
    ELSE IF p.Type = "SHARED"
    THEN IF p.Parameter \in SharedParams
         THEN AddParameter(found[2], p, TRUE) \o <<errors, TRUE>>
         ELSE found \o <<Append(errors, "Shared parameter not found"), TRUE>>
    ELSE IF p.Type \notin {"SORT", "REPLACE", "RENAME"}
    THEN AddParameter(found[2], p, FALSE) \o <<errors, TRUE>>
    ELSE found \o <<errors, TRUE>>

(* Lines 238 to 256: the group is set, formula and value are kept for      *)
(* later.                                                                  *)
WithGroup(fam, param, p) ==
    [fam EXCEPT ![AtId(fam, param)].group = p.Group]

KeepFormula(formulaParams, param, p, isNew) ==
    IF p.Formula # ""
    THEN Append(formulaParams,
                [parameter |-> param, formula |-> p.Formula,
                 dependents |-> p.Dependents,
                 formulaOverride |-> (isNew \/ p.FormulaOverride)])
    ELSE formulaParams

KeepValue(fam, valueParams, param, p, isNew) ==
    IF p.Value # "" /\ fam[AtId(fam, param)].formula = ""
    THEN Append(valueParams, <<param, p.Value, isNew \/ p.ValueOverride>>)
    ELSE valueParams

(* One pass of the loop of line 160, as a record of what it leaves.        *)
RowDone(res, kept, p) ==
    IF res[3] THEN [family |-> res[2], pending |-> kept,
                    errorItems |-> res[4], raised |-> TRUE]
    ELSE IF res[1] = 0 THEN [family |-> res[2], pending |-> kept,
                             errorItems |-> res[4], raised |-> FALSE]
    ELSE [family |-> WithGroup(res[2], res[1], p),
          pending |-> <<KeepFormula(kept[1], res[1], p, res[5]),
                        KeepValue(res[2], kept[2], res[1], p, res[5])>>,
          errorItems |-> res[4], raised |-> FALSE]

UpdateRow(fam, params, paramNames, kept, errors, p) ==
    IF p.Type \notin ParameterTypes \cup {"SHARED", "SORT", "RENAME", "REPLACE"}
    THEN [family |-> fam, pending |-> kept, errorItems |-> errors,
          raised |-> TRUE]
    ELSE RowDone(AddIfMissing(FindParameter(fam, params, paramNames, p), p, errors),
                 kept, p)

(* Lines 259 to 267, as <<family, shown>>: setParam sets the value, or shows *)
(* its own alert when Revit refuses it.                                    *)
RECURSIVE SetValues(_, _, _, _, _)
SetValues(fam, valueParams, k, rejects, shown) ==
    IF k > Len(valueParams) THEN <<fam, shown>>
    ELSE IF valueParams[k][3] \/ fam[AtId(fam, valueParams[k][1])].value = ""
    THEN IF "value" \in rejects
         THEN SetValues(fam, valueParams, k + 1, rejects,
                        Append(shown, "alert Error setting"))
         ELSE SetValues([fam EXCEPT ![AtId(fam, valueParams[k][1])].value =
                             valueParams[k][2]],
                        valueParams, k + 1, rejects, shown)
    ELSE SetValues(fam, valueParams, k + 1, rejects, shown)

(* Lines 270 to 286, as <<family, errorItems>>.                            *)
HasDepends(fam, fx) ==
    /\ ~(fam[AtId(fam, fx.parameter)].formula # "" /\ ~fx.formulaOverride)
    /\ \A d \in DOMAIN fx.dependents :
          familyHasParameter(fam, Ids(fam), fx.dependents[d]) # 0

RECURSIVE AddFormulas(_, _, _, _, _)
AddFormulas(fam, formulaParams, k, rejects, errors) ==
    IF k > Len(formulaParams) THEN <<fam, errors>>
    ELSE IF HasDepends(fam, formulaParams[k])
    THEN IF "formula" \in rejects
         THEN AddFormulas(fam, formulaParams, k + 1, rejects,
                          Append(errors, "couldn't set formula"))
         ELSE AddFormulas([fam EXCEPT ![AtId(fam, formulaParams[k].parameter)].formula =
                               formulaParams[k].formula],
                          formulaParams, k + 1, rejects, errors)
    ELSE AddFormulas(fam, formulaParams, k + 1, rejects, errors)

(* Lines 295 to 300: the parameters the rows name, in the order of the     *)
(* rows.                                                                   *)
RECURSIVE OrderedParams(_, _, _)
OrderedParams(fam, rows, k) ==
    IF k > Len(rows) THEN <<>>
    ELSE IF familyHasParameter(fam, Ids(fam), rows[k].Parameter) # 0
    THEN <<familyHasParameter(fam, Ids(fam), rows[k].Parameter)>>
         \o OrderedParams(fam, rows, k + 1)
    ELSE OrderedParams(fam, rows, k + 1)

RECURSIVE NotIn(_, _)
NotIn(list, ordered) ==
    IF list = <<>> THEN <<>>
    ELSE IF InList(Head(list), ordered) THEN NotIn(Tail(list), ordered)
    ELSE <<Head(list)>> \o NotIn(Tail(list), ordered)

(* The argument of ReorderParameters in line 303.                          *)
ReorderList(fam, rows) ==
    OrderedParams(fam, rows, 1) \o NotIn(Ids(fam), OrderedParams(fam, rows, 1))

(* ReorderParameters of Revit takes each parameter of the family once.     *)
ReorderAccepts(fam, list) ==
    /\ Len(list) = Len(fam)
    /\ \A j \in DOMAIN fam : InList(fam[j].id, list)

ReorderParameters(fam, list) ==
    IF ReorderAccepts(fam, list)
    THEN [k \in DOMAIN list |-> fam[AtId(fam, list[k])]]
    ELSE fam

MaxRows == 3

InitialFamily ==
    << FamilyParameter(1, "Width", "Dimensions", "", "1", FALSE),
       FamilyParameter(2, "Depth", "Dimensions", "", "", FALSE),
       FamilyParameter(3, "Mark", "Identity", "", "", TRUE) >>

SheetRows ==
    { SheetRow("Depth", "Length", "Geometry", "", <<>>, "2", FALSE, ""),
      SheetRow("Height", "Length", "Dimensions", "Width * 2", <<"Width">>, "", FALSE, ""),
      SheetRow("Breadth", "RENAME", "Dimensions", "", <<>>, "3", FALSE, "Width"),
      SheetRow("Code", "SHARED", "Identity", "", <<>>, "x", FALSE, ""),
      SheetRow("Cost", "SHARED", "Identity", "", <<>>, "", FALSE, ""),
      SheetRow("Code", "REPLACE", "Identity", "", <<>>, "", FALSE, "Mark"),
      SheetRow("Depth", "SORT", "Dimensions", "", <<>>, "", FALSE, ""),
      SheetRow("Area", "Bogus", "Dimensions", "", <<>>, "", FALSE, "") }

Sheets == UNION { [1..n -> SheetRows] : n \in 0..MaxRows }

InitFamily ==
    /\ family = InitialFamily
    /\ inParams = <<>>
    /\ revitRejects \in SUBSET {"value", "formula"}
    /\ pc = "open"
    /\ transaction = "none"
    /\ rolledBack = <<>>
    /\ row = 0
    /\ currentParams = <<>>
    /\ pending = <<<<>>, <<>>>>
    /\ errorItems = <<>>
    /\ famLog = <<>>
    /\ reordered = None
    /\ IdleNotFamily

(* Lines 104 to 155: the rows are read, the header row is taken off.       *)
OpenWorkbook(sheet) ==
    /\ pc = "open"
    /\ inParams' = sheet
    /\ currentParams' = Ids(family)
    /\ pc' = "update"
    /\ UNCHANGED <<family, revitRejects, transaction, rolledBack, row,
                   pending, errorItems, famLog, reordered>>
    /\ UNCHANGED notFamilyVars

(* Lines 129 to 131: no row was read.                                      *)
NoWorkbook ==
    /\ pc = "open"
    /\ famLog' = Append(famLog, "alert Error")
    /\ pc' = "exited"
    /\ UNCHANGED <<family, inParams, revitRejects, transaction, rolledBack,
                   row, currentParams, pending, errorItems, reordered>>
    /\ UNCHANGED notFamilyVars

(* Line 158.                                                               *)
StartUpdate ==
    /\ pc = "update"
    /\ transaction' = Transaction("update")
    /\ rolledBack' = family
    /\ famLog' = Append(famLog, "Start update")
    /\ row' = 1
    /\ pc' = IF inParams = <<>> THEN "values" ELSE "rows"
    /\ UNCHANGED <<family, inParams, revitRejects, currentParams, pending,
                   errorItems, reordered>>
    /\ UNCHANGED notFamilyVars

RowApplied(done) ==
    IF done.raised
    THEN /\ family' = rolledBack
         /\ transaction' = "none"
         /\ famLog' = Append(famLog, "RollBack update")
         /\ pc' = "raised"
         /\ UNCHANGED <<row, pending, errorItems>>
    ELSE /\ family' = done.family
         /\ pending' = done.pending
         /\ errorItems' = done.errorItems
         /\ row' = row + 1
         /\ pc' = IF row = Len(inParams) THEN "values" ELSE "rows"
         /\ UNCHANGED <<transaction, famLog>>

(* One pass of the loop of lines 160 to 256.                               *)
UpdateParameter ==
    /\ pc = "rows"
    /\ RowApplied(UpdateRow(family, currentParams, Names(InitialFamily),
                            pending, errorItems, inParams[row]))
    /\ UNCHANGED <<inParams, revitRejects, rolledBack, currentParams, reordered>>
    /\ UNCHANGED notFamilyVars

(* Lines 259 to 267.                                                       *)
SetParameterValues ==
    /\ pc = "values"
    /\ family' = SetValues(family, pending[2], 1, revitRejects, famLog)[1]
    /\ famLog' = SetValues(family, pending[2], 1, revitRejects, famLog)[2]
    /\ pc' = "formulas"
    /\ UNCHANGED <<inParams, revitRejects, transaction, rolledBack, row,
                   currentParams, pending, errorItems, reordered>>
    /\ UNCHANGED notFamilyVars

(* Lines 270 to 286, and the end of the with block.                        *)
SetFormulas ==
    /\ pc = "formulas"
    /\ family' = AddFormulas(family, pending[1], 1, revitRejects, errorItems)[1]
    /\ errorItems' = AddFormulas(family, pending[1], 1, revitRejects, errorItems)[2]
    /\ transaction' = "none"
    /\ famLog' = Append(famLog, "Commit update")
    /\ pc' = "report"
    /\ UNCHANGED <<inParams, revitRejects, rolledBack, row, currentParams,
                   pending, reordered>>
    /\ UNCHANGED notFamilyVars

(* Lines 289 and 290.                                                      *)
ReportErrors ==
    /\ pc = "report"
    /\ famLog' = IF Len(errorItems) > 0 THEN Append(famLog, "alert errors")
                 ELSE famLog
    /\ pc' = "sort"
    /\ UNCHANGED <<family, inParams, revitRejects, transaction, rolledBack,
                   row, currentParams, pending, errorItems, reordered>>
    /\ UNCHANGED notFamilyVars

(* Line 293.                                                               *)
StartSort ==
    /\ pc = "sort"
    /\ transaction' = Transaction("sort")
    /\ rolledBack' = family
    /\ famLog' = Append(famLog, "Start sort")
    /\ pc' = "reorder"
    /\ UNCHANGED <<family, inParams, revitRejects, row, currentParams,
                   pending, errorItems, reordered>>
    /\ UNCHANGED notFamilyVars

(* Lines 295 to 307, and the end of the with block.                        *)
SortParameters ==
    /\ pc = "reorder"
    /\ reordered' = ReorderList(family, inParams)
    /\ family' = ReorderParameters(family, ReorderList(family, inParams))
    /\ famLog' = IF ReorderAccepts(family, ReorderList(family, inParams))
                 THEN Append(famLog, "Commit sort")
                 ELSE famLog \o <<"alert unordered", "Commit sort">>
    /\ transaction' = "none"
    /\ pc' = "finished"
    /\ UNCHANGED <<inParams, revitRejects, rolledBack, row, currentParams,
                   pending, errorItems>>
    /\ UNCHANGED notFamilyVars

NextFamily ==
    \/ \E sheet \in Sheets : OpenWorkbook(sheet)
    \/ NoWorkbook
    \/ StartUpdate
    \/ UpdateParameter
    \/ SetParameterValues
    \/ SetFormulas
    \/ ReportErrors
    \/ StartSort
    \/ SortParameters

-----------------------------------------------------------------------------
(* Properties of LoadParametersToFamily                                    *)

Position(e) ==
    IF InList(e, famLog) THEN CHOOSE k \in DOMAIN famLog : famLog[k] = e ELSE 0

(* C13: every change of the family (a parameter added, renamed or          *)
(* replaced, its group, value or formula set, the parameters reordered) is *)
(* made by a step that runs inside an open transaction; the dialog that    *)
(* lists the errors is shown only after the update transaction has ended,  *)
(* and the sort transaction starts only after that.                        *)
C13_OrderOfLog ==
    /\ Position("alert errors") # 0 =>
          /\ Position("Commit update") # 0
          /\ Position("Commit update") < Position("alert errors")
    /\ Position("Start sort") # 0 =>
          /\ Position("Commit update") # 0
          /\ Position("Commit update") < Position("Start sort")
          /\ Position("alert errors") < Position("Start sort")
          /\ Len(errorItems) > 0 => Position("alert errors") # 0
    /\ (pc \in {"open", "update", "report", "sort", "finished", "raised", "exited"})
          => transaction = "none"

C13_TransactionWrapsMutations ==
    [][ /\ (family' # family => transaction # "none")
        /\ C13_OrderOfLog' ]_vars

C13_Witness ==
    /\ pc = "finished"
    /\ Position("alert errors") # 0
    /\ Names(family) # Names(InitialFamily)
    /\ family # rolledBack


RowOf(name) ==
    IF \E k \in DOMAIN inParams : inParams[k].Parameter = name
    THEN CHOOSE k \in DOMAIN inParams :
            /\ inParams[k].Parameter = name
            /\ \A h \in 1..(k - 1) : inParams[h].Parameter # name
    ELSE 0

SortedBySheet ==
    /\ reordered # None
    /\ Len(reordered) = Len(family)
    /\ \A j \in DOMAIN family :
          Cardinality({k \in DOMAIN reordered : reordered[k] = family[j].id}) = 1
    /\ Ids(family) = reordered
    /\ \A a \in DOMAIN family : \A b \in DOMAIN family :
          a < b =>
             \/ RowOf(family[b].name) = 0
             \/ /\ RowOf(family[a].name) # 0
                /\ RowOf(family[a].name) < RowOf(family[b].name)
             \/ /\ RowOf(family[a].name) = 0
                /\ RowOf(family[b].name) = 0

(* C16: when the script has finished, the list that was given to           *)
(* ReorderParameters holds every parameter of the family exactly once, and *)
(* the family's parameters are in that order: those the sheet names first, *)
(* in the order of the rows, then all the others.                          *)
C16_SortedBySheetOrder == pc = "finished" => SortedBySheet

(* The same for the sheets that name no parameter on two rows.             *)
C16_SortedWhenRowsDiffer ==
    (/\ pc = "finished"
     /\ \A h \in DOMAIN inParams : \A k \in DOMAIN inParams :
           h # k => inParams[h].Parameter # inParams[k].Parameter)
    => SortedBySheet

C16_Witness ==
    /\ pc = "finished"
    /\ Len(inParams) = 2
    /\ inParams[1].Parameter = inParams[2].Parameter
    /\ Len(reordered) = Len(family) + 1
    /\ Position("alert unordered") # 0

C16_SortedWitness ==
    /\ pc = "finished"
    /\ SortedBySheet
    /\ Ids(family) # Ids(rolledBack)
    /\ \E j \in DOMAIN family : RowOf(family[j].name) = 0

-----------------------------------------------------------------------------
(* Make Pattern pat_lib: class PatParse, on the text PatternSet reads.     *)

HatchPattern(name, description) ==
    [name |-> name, description |-> description, line_families |-> <<>>]

\* self.patterns[name] = current_pattern: <<patterns, place of the current>>
HatchHeader(parts, pats) ==
    IF \E j \in DOMAIN pats : pats[j].name = strip(parts[1])
    THEN <<[pats EXCEPT ![CHOOSE j \in DOMAIN pats : pats[j].name = strip(parts[1])] =
               HatchPattern(strip(parts[1]),
                            IF Len(parts) > 1 THEN strip(parts[2]) ELSE <<>>)],
           CHOOSE j \in DOMAIN pats : pats[j].name = strip(parts[1])>>
    ELSE <<Append(pats, HatchPattern(strip(parts[1]),
                                     IF Len(parts) > 1 THEN strip(parts[2]) ELSE <<>>)),
           Len(pats) + 1>>

\* [float(p) for p in line.split(',')]: None where a float() raises
RECURSIVE HatchFloats(_, _)
HatchFloats(parts_str, acc) ==
    IF parts_str = <<>> THEN Some(acc)
    ELSE IF float(strip(Head(parts_str))) = None THEN None
    ELSE HatchFloats(Tail(parts_str), Append(acc, float(strip(Head(parts_str)))[1]))

\* angle, ox, oy, dx, dy = parts[0:5]; dashes = parts[5:]
HatchDataLine(parts, st) ==
    IF parts = None THEN st
    ELSE IF Len(parts[1]) < 5 THEN st
    ELSE <<[st[1] EXCEPT ![st[2]].line_families =
               Append(@, PatternLineFamily(parts[1][1], parts[1][2], parts[1][3],
                                           parts[1][4], parts[1][5],
                                           SubSeq(parts[1], 6, Len(parts[1]))))],
           st[2]>>

RECURSIVE HatchParseLoop(_, _)
HatchParseLoop(lines, st) ==
    IF lines = <<>> THEN st
    ELSE IF strip(Head(lines)) = <<>> \/ startswith(strip(Head(lines)), <<";">>)
    THEN HatchParseLoop(Tail(lines), st)
    ELSE IF startswith(strip(Head(lines)), <<"*">>)
    THEN HatchParseLoop(Tail(lines),
                        HatchHeader(SplitOnce(Tail(strip(Head(lines))), ",", <<>>),
                                    st[1]))
    ELSE IF st[2] # 0
    THEN HatchParseLoop(Tail(lines),
                        HatchDataLine(HatchFloats(split(strip(Head(lines)), ","), <<>>),
                                      st))
    ELSE HatchParseLoop(Tail(lines), st)

\* PatParse.parse_string: the patterns, in the order of their first header
parse_string(lines) == HatchParseLoop(lines, <<<<>>, 0>>)[1]

\* the step from line i to line i + 1 of a family, as lines 244 to 251 of
\* HatchPattern.generate_drawing_instructions take it, at scale 1
HatchOffset(lf) ==
    <<RAdd(RMul(RNeg(Trig(lf.angle)[2]), lf.delta[1]),
           RMul(Trig(lf.angle)[1], lf.delta[2])),
      RAdd(RMul(Trig(lf.angle)[1], lf.delta[1]),
           RMul(Trig(lf.angle)[2], lf.delta[2]))>>

-----------------------------------------------------------------------------
(* Properties of the two parsers on one text                               *)

\* the angles of the texts are whole degrees
Degrees(angle) == angle[1] \div angle[2]

StepOfLine(line) == get_family_offset([line EXCEPT !.angle_deg = Degrees(@)])
StepOfFamily(lf) == HatchOffset([lf EXCEPT !.angle = Degrees(@)])

SameFamily(line, lf) ==
    /\ line.angle_deg = lf.angle
    /\ <<line.origin_x, line.origin_y>> = lf.origin
    /\ StepOfLine(line) = StepOfFamily(lf)

\* C15: a data line of a .pat text gives the same family of lines in both
\* libraries: the same angle and origin, and the same step from one line of
\* the family to the next, made of the shift along the line and of the
\* spacing across it that the 4th and the 5th field stand for.
C15_SameFamilyInBothVariants ==
    parsed =>
        LET old == parse_string(source)
        IN  \A j \in DOMAIN old :
               /\ old[j].name \in DOMAIN name_map
               /\ Len(patterns[name_map[old[j].name]].lines)
                     = Len(old[j].line_families)
               /\ \A i \in DOMAIN old[j].line_families :
                     SameFamily(patterns[name_map[old[j].name]].lines[i],
                                old[j].line_families[i])

\* the same, but for the step of the families
C15_SameButTheStep ==
    parsed =>
        LET old == parse_string(source)
        IN  \A j \in DOMAIN old :
               /\ old[j].name \in DOMAIN name_map
               /\ Len(patterns[name_map[old[j].name]].lines)
                     = Len(old[j].line_families)
               /\ \A i \in DOMAIN old[j].line_families :
                     /\ patterns[name_map[old[j].name]].lines[i].angle_deg
                           = old[j].line_families[i].angle
                     /\ patterns[name_map[old[j].name]].lines[i].delta_u
                           = old[j].line_families[i].delta[1]
                     /\ patterns[name_map[old[j].name]].lines[i].delta_v
                           = old[j].line_families[i].delta[2]

\* the line "0,0,0,0,1,0": lines one unit apart in one library, a step of
\* one unit along the line in the other
C15_Witness ==
    /\ parsed
    /\ source = <<HeaderA, Continuous>>
    /\ StepOfLine(patterns[1].lines[1]) = <<I(0), I(1)>>
    /\ StepOfFamily(parse_string(source)[1].line_families[1]) = <<I(1), I(0)>>

-----------------------------------------------------------------------------
(* LoadFamilesFromViews: script.py                                         *)
(*                                                                         *)
(* The script runs from top to bottom; a name of the script is None here   *)
(* while no statement has bound it.  The source document has two sheets,   *)
(* one of them empty, and two drafting views; a family is its name.        *)

SourceSheets == {"A101", "A102"}
SourceViews == {"Details", "Notes"}

GetAllPlacedViews(s) == IF s = "A101" THEN {"Details"} ELSE {}

\* the families of the kinds of familytypes placed in a view, in the order
\* the collector gives them
FamiliesIn(v) == IF v = "Details" THEN <<"Tag", "Item">> ELSE <<"Item", "Keynote">>

SetToSeq(S) ==
    CASE S = {} -> <<>>
      [] S = {"Details"} -> <<"Details">>
      [] S = {"Notes"} -> <<"Notes">>
      [] OTHER -> <<"Details", "Notes">>

\* lines 69 to 80: the families of the views that the current document
\* has as well, each once
RECURSIVE ViewElements(_, _, _)
ViewElements(found, known, acc) ==
    IF found = <<>> THEN acc
    ELSE IF (\A i \in DOMAIN acc : acc[i] # Head(found)) /\ Head(found) \in known
    THEN ViewElements(Tail(found), known, Append(acc, Head(found)))
    ELSE ViewElements(Tail(found), known, acc)

RECURSIVE ElementsOf(_)
ElementsOf(vs) ==
    IF vs = <<>> THEN <<>> ELSE FamiliesIn(Head(vs)) \o ElementsOf(Tail(vs))

MaxOpenDocs == 2

InitLoad ==
    /\ loadPc = "document"
    /\ open_docs \in 0..MaxOpenDocs
    /\ currdoc_families_names \in SUBSET {"Tag", "Item", "Door"}
    /\ choice = None
    /\ sheets = None
    /\ views = None
    /\ view_elements = <<>>
    /\ loaded = <<>>
    /\ alerts = <<>>
    /\ IdleNotLoad

\* lines 35 to 41: with no other document open, open_docs[0] raises
SelectDocument ==
    /\ loadPc = "document"
    /\ loadPc' = IF open_docs = 0 THEN "raised" ELSE "ask"
    /\ UNCHANGED <<open_docs, currdoc_families_names, choice, sheets, views,
                   view_elements, loaded, alerts>>
    /\ UNCHANGED notLoadVars

\* lines 45 to 51 for the answer 'Sheets', with the sheets the user picks
ChooseSheets(picked) ==
    /\ loadPc = "ask"
    /\ choice' = Some("Sheets")
    /\ sheets' = Some(picked)
    /\ views' = Some(UNION {GetAllPlacedViews(s) : s \in picked})
    /\ loadPc' = "check"
    /\ UNCHANGED <<open_docs, currdoc_families_names, view_elements, loaded, alerts>>
    /\ UNCHANGED notLoadVars

\* lines 45, 52 and 53 for the answer 'Views', with the views the user picks
ChooseViews(picked) ==
    /\ loadPc = "ask"
    /\ choice' = Some("Views")
    /\ views' = Some(picked)
    /\ loadPc' = "check"
    /\ UNCHANGED <<open_docs, currdoc_families_names, sheets, view_elements,
                   loaded, alerts>>
    /\ UNCHANGED notLoadVars

\* line 54, and lines 58 to 80
CollectFamilies ==
    /\ loadPc = "check"
    /\ IF views[1] = {}
       THEN /\ alerts' = Append(alerts, "No views selected")
            /\ loadPc' = "exited"
            /\ UNCHANGED view_elements
       ELSE /\ view_elements' = ViewElements(ElementsOf(SetToSeq(views[1])),
                                             currdoc_families_names, <<>>)
            /\ loadPc' = "reload"
            /\ UNCHANGED alerts
    /\ UNCHANGED <<open_docs, currdoc_families_names, choice, sheets, views, loaded>>
    /\ UNCHANGED notLoadVars

\* lines 84 to 87: one pass of the loop, or its end
ReloadFamily ==
    /\ loadPc = "reload"
    /\ IF Len(loaded) < Len(view_elements)
       THEN /\ loaded' = Append(loaded, view_elements[Len(loaded) + 1])
            /\ UNCHANGED loadPc
       ELSE /\ loadPc' = "reloaded"
            /\ UNCHANGED loaded
    /\ UNCHANGED <<open_docs, currdoc_families_names, choice, sheets, views,
                   view_elements, alerts>>
    /\ UNCHANGED notLoadVars

\* lines 106 to 113: the loop reads the name sheets
FinalAlert ==
    /\ loadPc = "reloaded"
    /\ IF sheets = None
       THEN /\ loadPc' = "raised"
            /\ UNCHANGED alerts
       ELSE /\ alerts' = Append(alerts, "Now copy and paste these sheets")
            /\ loadPc' = "exited"
    /\ UNCHANGED <<open_docs, currdoc_families_names, choice, sheets, views,
                   view_elements, loaded>>
    /\ UNCHANGED notLoadVars

NextLoad ==
    \/ SelectDocument
    \/ \E picked \in SUBSET SourceSheets \ {{}} : ChooseSheets(picked)
    \/ \E picked \in SUBSET SourceViews \ {{}} : ChooseViews(picked)
    \/ CollectFamilies
    \/ ReloadFamily
    \/ FinalAlert

-----------------------------------------------------------------------------
(* Properties of LoadFamilesFromViews                                      *)

ClosingAlertShown ==
    /\ loadPc = "exited"
    /\ alerts # <<>> /\ alerts[Len(alerts)] = "Now copy and paste these sheets"

\* C17: once the families have been reloaded, the script goes on to show
\* its closing alert and ends without an exception, for the answer
\* 'Sheets' and for the answer 'Views'.
C17_ReachesFinalDialog == (loadPc = "reloaded") ~> ClosingAlertShown

\* the same for the answer 'Sheets' alone
C17_SheetsReachFinalDialog ==
    (loadPc = "reloaded" /\ choice = Some("Sheets")) ~> ClosingAlertShown

\* when the loop has ended, each family of the chosen views that the
\* current document has as well was reloaded once, and no other
C17_EachFamilyReloadedOnce ==
    loadPc \in {"reloaded", "raised", "exited"} /\ views # None /\ views[1] # {} =>
        /\ \A f \in currdoc_families_names :
              (\E v \in views[1] : \E i \in DOMAIN FamiliesIn(v) : FamiliesIn(v)[i] = f)
                 => Cardinality({i \in DOMAIN loaded : loaded[i] = f}) = 1
        /\ \A i \in DOMAIN loaded :
              /\ loaded[i] \in currdoc_families_names
              /\ \E v \in views[1] : \E j \in DOMAIN FamiliesIn(v) : FamiliesIn(v)[j] = loaded[i]

\* the answer was 'Views', two families were reloaded, and the script
\* ended with an exception and without the closing alert
C17_Witness ==
    /\ loadPc = "raised"
    /\ choice = Some("Views")
    /\ Len(loaded) = 2
    /\ alerts = <<>>

----------------------------------------------------------------------------
(* The specifications: one per part of the program.                        *)

SpecDraw == InitDraw /\ [][NextDraw]_vars

SpecLines == InitLines /\ [][NextLines]_vars

SpecParse == InitParse /\ [][NextParse]_vars

SpecScript == InitScript /\ [][NextScript]_vars

SpecConfig == InitConfig /\ [][NextConfig]_vars

SpecDims == InitDims /\ [][NextDims]_vars

SpecDoc == InitDoc /\ [][NextDoc]_vars

SpecFamily == InitFamily /\ [][NextFamily]_vars

SpecLoad == InitLoad /\ [][NextLoad]_vars /\ WF_vars(NextLoad)

====
